---- MODULE Spec2Model ----
(***************************************************************************)
(* Model of nocopy-cli's file module (src/cli/file.py): the File codecs    *)
(* (Json, Yaml, Csv, Xlsx), File.load, File.save, File.__level and the     *)
(* file() factory; and of the twelve commands of src/cli/cli.py.           *)
(*                                                                         *)
(* Representation.  A Python str is a sequence of one-character strings.   *)
(* An Optional is <<>> (None) or <<x>>.  A Python value is a tagged record *)
(* (NoneV, IntV, StrV, DictV).  A dict is the sequence of its <<key,       *)
(* value>> items in insertion order.  The caller's list of records is a    *)
(* sequence of object identities (data) into a store of dicts (heap), so   *)
(* that two list slots holding the same dict object stay the same object.  *)
(***************************************************************************)
EXTENDS Integers, Sequences, FiniteSets, TLC

VARIABLES
    inst,     \* the codec instance in use: <<>> or <<instance record>>
    lastOp,   \* the operation executed last, with its arguments
    result,   \* what that operation returned or raised
    heap,     \* the dict objects of the caller's records, by identity
    data,     \* the caller's list: a sequence of identities into heap
    pre,      \* heap, data, disk and inst as they were when the last operation began
    disk,     \* the file at the instance's path (read by load, written by save)
    stdout,   \* what the last operation printed: <<>> or <<text>>
    stdin,    \* standard input: the lines not read yet
    proc,     \* position and locals of a File.load or a purge under way
    remote    \* the NocoDB table: its records and the requests it received

vars == <<inst, lastOp, result, heap, data, pre, disk, stdout,
          stdin, proc, remote>>

---------------------------------------------------------------------------
(* Bounds of the model. *)

\* Longest record list a caller hands over.
MaxLen == 2
\* Longest list a dump or save is started on (Xlsx.dump grows the list).
MaxRecords == 3

---------------------------------------------------------------------------
(* Python str, Optional *)

None == <<>>
Some(x) == <<x>>
IsNone(o) == o = <<>>
The(o) == o[1]

UpperLetters ==
    <<"A","B","C","D","E","F","G","H","I","J","K","L","M",
      "N","O","P","Q","R","S","T","U","V","W","X","Y","Z">>
LowerLetters ==
    <<"a","b","c","d","e","f","g","h","i","j","k","l","m",
      "n","o","p","q","r","s","t","u","v","w","x","y","z">>

\* str.lower() on one character (ASCII letters).
LowerChar(c) ==
    IF \E i \in 1..26 : UpperLetters[i] = c
    THEN LowerLetters[CHOOSE i \in 1..26 : UpperLetters[i] = c]
    ELSE c

\* str.lower()
lower(s) == [i \in 1..Len(s) |-> LowerChar(s[i])]

\* str.rfind("."): the 0-based index of the last dot, -1 when there is none.
rfindDot(s) ==
    IF \E i \in 1..Len(s) : s[i] = "."
    THEN (CHOOSE i \in 1..Len(s) :
              s[i] = "." /\ \A j \in (i+1)..Len(s) : s[j] # ".") - 1
    ELSE -1

\* pathlib.PurePath.suffix of a path given by its final component.
suffix(name) ==
    LET i == rfindDot(name)
    IN  IF 0 < i /\ i < Len(name) - 1
        THEN SubSeq(name, i + 1, Len(name))
        ELSE <<>>

---------------------------------------------------------------------------
(* The codec classes: format_name(), file_extensions(), supports_std() *)

Json_format_name == <<"j","s","o","n">>
Yaml_format_name == <<"y","a","m","l">>
Csv_format_name  == <<"c","s","v">>
Xlsx_format_name == <<"x","l","s","x">>

Json_file_extensions == { <<".","j","s","o","n">> }
Yaml_file_extensions == { <<".","y","a","m","l">>, <<".","y","m","l">> }
Csv_file_extensions  == { <<".","c","s","v">> }
Xlsx_file_extensions == { <<".","x","l","s","x">> }

supports_std(cls) == cls \in {"Json", "Yaml", "Csv", "Xlsx"}

\* File.__init__, and the __init__ of each subclass.  kwargs is a record of
\* Optionals.  Csv reads only_header from its kwargs; Xlsx reads only
\* freeze_at, so an only_header passed to it is dropped.  level_nested is
\* the third positional argument.  longest_entry_temp is <<>> or the
\* identity of the cached dict.  The field kwargs is no attribute of the
\* object: it records the keyword arguments the constructor was called with.
NoKwargs == [only_header |-> None]

NewInstance(cls, input_path, output_path, level_nested, kwargs) ==
    [ cls          |-> cls,
      input_path   |-> input_path,
      output_path  |-> output_path,
      level_nested |-> level_nested,
      only_header  |-> IF cls = "Csv" /\ ~IsNone(kwargs.only_header)
                       THEN The(kwargs.only_header)
                       ELSE FALSE,
      longest_entry_temp |-> None,
      kwargs       |-> kwargs ]

Returned(x) == [ok |-> TRUE, value |-> x]
Raised(exc) == [ok |-> FALSE, exc |-> exc]

---------------------------------------------------------------------------
(* file(): the factory *)

\* Lines 559-560 without the lower(): the hint is compared as written.
hintLowered_asWritten(format_option) == format_option

\* Lines 559-560: the hint, lowercased when there is one.
hintLowered(format_option) ==
    IF ~IsNone(format_option) THEN Some(lower(The(format_option))) ELSE None

\* Lines 561-570: the branch on the hint.  None when no branch is taken and
\* control falls through to the extension checks.
byFormatOption(fo, input_path, output_path, level_nested, kwargs) ==
    IF fo = Some(Json_format_name)
    THEN Some(Returned(NewInstance("Json", input_path, output_path, level_nested, NoKwargs)))
    ELSE IF fo = Some(Yaml_format_name)
    THEN Some(Returned(NewInstance("Yaml", input_path, output_path, level_nested, NoKwargs)))
    ELSE IF fo = Some(Csv_format_name)
    THEN Some(Returned(NewInstance("Csv", input_path, output_path, level_nested, NoKwargs)))
    ELSE IF fo = Some(Xlsx_format_name)
    THEN Some(Returned(NewInstance("Xlsx", input_path, output_path, level_nested, kwargs)))
    ELSE IF ~IsNone(fo)
    THEN Some(Raised("FormatUnknown"))
    ELSE None

\* Lines 572-573 comparing the two extensions as written.
extensionsDiffer_caseSensitive(input_path, output_path) ==
    /\ ~IsNone(input_path)
    /\ ~IsNone(output_path)
    /\ suffix(The(input_path)) # suffix(The(output_path))

\* Lines 572-573: the condition of DifferentInOutFormats.
extensionsDiffer(input_path, output_path) ==
    /\ ~IsNone(input_path)
    /\ ~IsNone(output_path)
    /\ lower(suffix(The(input_path))) # lower(suffix(The(output_path)))

\* Lines 576-579: the path whose extension decides.
chosenPath(input_path, output_path) ==
    IF ~IsNone(input_path) THEN The(input_path) ELSE The(output_path)

\* Lines 580-594 without the lower() of line 580.
byExtension_asWritten(path, input_path, output_path, level_nested, kwargs) ==
    LET sfx == suffix(path)
    IN  IF sfx \in Json_file_extensions
        THEN Returned(NewInstance("Json", input_path, output_path, level_nested, NoKwargs))
        ELSE IF sfx \in Yaml_file_extensions
        THEN Returned(NewInstance("Yaml", input_path, output_path, level_nested, NoKwargs))
        ELSE IF sfx \in Csv_file_extensions
        THEN Returned(NewInstance("Csv", input_path, output_path, level_nested, NoKwargs))
        ELSE IF sfx \in Xlsx_file_extensions
        THEN Returned(NewInstance("Xlsx", input_path, output_path, level_nested, kwargs))
        ELSE Raised("FormatNotAscertainable")

\* Lines 580-594: the branch on the extension.
byExtension(path, input_path, output_path, level_nested, kwargs) ==
    LET sfx == lower(suffix(path))
    IN  IF sfx \in Json_file_extensions
        THEN Returned(NewInstance("Json", input_path, output_path, level_nested, NoKwargs))
        ELSE IF sfx \in Yaml_file_extensions
        THEN Returned(NewInstance("Yaml", input_path, output_path, level_nested, NoKwargs))
        ELSE IF sfx \in Csv_file_extensions
        THEN Returned(NewInstance("Csv", input_path, output_path, level_nested, NoKwargs))
        ELSE IF sfx \in Xlsx_file_extensions
        THEN Returned(NewInstance("Xlsx", input_path, output_path, level_nested, kwargs))
        ELSE Raised("FormatNotAscertainable")

file(format_option, input_path, output_path, level_nested, kwargs) ==
    IF IsNone(format_option) /\ IsNone(input_path) /\ IsNone(output_path)
    THEN Returned(NewInstance("Yaml", input_path, output_path, level_nested, NoKwargs))
    ELSE
    LET fo == hintLowered(format_option)
        hinted == byFormatOption(fo, input_path, output_path, level_nested, kwargs)
    IN  IF ~IsNone(hinted)
        THEN The(hinted)
        ELSE IF extensionsDiffer(input_path, output_path)
        THEN Raised("DifferentInOutFormats")
        ELSE byExtension(chosenPath(input_path, output_path),
                         input_path, output_path, level_nested, kwargs)

---------------------------------------------------------------------------
(* Python values and dict *)

NoneV    == [t |-> "None"]
IntV(n)  == [t |-> "int", v |-> n]
StrV(s)  == [t |-> "str", v |-> s]
DictV(d) == [t |-> "dict", v |-> d]
ListV(l) == [t |-> "list", v |-> l]

isinstance(x, type) == x.t = type

\* dict: the sequence of its <<key, value>> items, in insertion order.
keys(d)   == [i \in 1..Len(d) |-> d[i][1]]
values(d) == [i \in 1..Len(d) |-> d[i][2]]
contains(d, k) == \E i \in 1..Len(d) : d[i][1] = k
getitem(d, k)  == d[CHOOSE i \in 1..Len(d) : d[i][1] = k][2]
\* d[k] = v: an existing key keeps its place, a new key goes last.
setitem(d, k, v) ==
    IF contains(d, k)
    THEN [i \in 1..Len(d) |-> IF d[i][1] = k THEN <<k, v>> ELSE d[i]]
    ELSE Append(d, <<k, v>>)
delitem(d, k) == SelectSeq(d, LAMBDA item : item[1] # k)

RECURSIVE update(_, _)
\* d.update(e)
update(d, e) ==
    IF e = <<>> THEN d
    ELSE update(setitem(d, e[1][1], e[1][2]), Tail(e))

RECURSIVE concat(_)
\* "".join(parts)
concat(parts) ==
    IF parts = <<>> THEN <<>> ELSE parts[1] \o concat(Tail(parts))

RECURSIVE join(_, _)
\* sep.join(parts)
join(sep, parts) ==
    IF parts = <<>> THEN <<>>
    ELSE IF Len(parts) = 1 THEN parts[1]
    ELSE parts[1] \o sep \o join(sep, Tail(parts))

Digits == <<"0","1","2","3","4","5","6","7","8","9">>

RECURSIVE natstr(_)
natstr(n) ==
    IF n < 10 THEN <<Digits[n + 1]>>
    ELSE natstr(n \div 10) \o <<Digits[(n % 10) + 1]>>

\* str(n) of an int
intstr(n) == IF n < 0 THEN <<"-">> \o natstr(0 - n) ELSE natstr(n)

RECURSIVE repr(_)
\* repr(x); a str is taken to hold no quote, backslash or control character.
repr(x) ==
    IF x.t = "None" THEN <<"N","o","n","e">>
    ELSE IF x.t = "int" THEN intstr(x.v)
    ELSE IF x.t = "str" THEN <<"'">> \o x.v \o <<"'">>
    ELSE <<"{">>
         \o join(<<",", " ">>,
                 [i \in 1..Len(x.v) |->
                     <<"'">> \o x.v[i][1] \o <<"'", ":", " ">> \o repr(x.v[i][2])])
         \o <<"}">>

\* str(x)
str(x) == IF x.t = "str" THEN x.v ELSE repr(x)

---------------------------------------------------------------------------
(* File.__level *)

\* Lines 212-214 storing entry[field] instead of entry[field][sub_field].
sub_rsl_wholeValue(field, nested) ==
    [i \in 1..Len(nested) |-> <<field \o <<"_">> \o nested[i][1], DictV(nested)>>]

\* Lines 212-214: the items of one nested dict under their prefixed names.
sub_rsl(field, nested) ==
    [i \in 1..Len(nested) |-> <<field \o <<"_">> \o nested[i][1], nested[i][2]>>]

\* Lines 208-215: rsl, one item per field of entry whose value is a dict.
level_rsl(entry) ==
    LET dictItems == SelectSeq(entry, LAMBDA item : isinstance(item[2], "dict"))
    IN  [i \in 1..Len(dictItems) |->
            <<dictItems[i][1], sub_rsl(dictItems[i][1], dictItems[i][2].v)>>]

RECURSIVE level_apply(_, _)
\* Lines 216-218: for r in rsl: del entry[r]; entry.update(rsl[r])
level_apply(entry, rsl) ==
    IF rsl = <<>> THEN entry
    ELSE level_apply(update(delitem(entry, rsl[1][1]), rsl[1][2]), Tail(rsl))

\* Lines 208-218: the body of the loop over data, on one entry.
level_entry(entry) == level_apply(entry, level_rsl(entry))

RECURSIVE level_loop(_, _)
\* Lines 207-218: the loop; every entry is rewritten in place, in list order.
level_loop(h, ids) ==
    IF ids = <<>> THEN h
    ELSE level_loop([h EXCEPT ![ids[1]] = level_entry(h[ids[1]])], Tail(ids))

\* File.__level: the store after the call; line 220 returns the list itself.
level(self, h, d) == IF ~self.level_nested THEN h ELSE level_loop(h, d)

---------------------------------------------------------------------------
(* What dump() returns: the bytes, by what they encode.  One record shape  *)
(* for every codec: the lines of a CSV text, the document of a JSON or     *)
(* YAML text, the worksheet of a workbook.                                 *)

NoSheet == [rows |-> <<>>, widths |-> <<>>, wrapped |-> <<>>,
            conditional |-> <<>>, table |-> <<>>]

Bytes(fmt, lines, doc, sheet) ==
    [fmt |-> fmt, lines |-> lines, doc |-> doc, sheet |-> sheet]

EmptyBytes == Bytes("empty", <<>>, <<>>, NoSheet)
\* Whatever a file held before this run.
OldBytes   == Bytes("old", <<>>, <<>>, NoSheet)

\* The records of list d in store h, by value.
records(h, d) == [i \in 1..Len(d) |-> h[d[i]]]

---------------------------------------------------------------------------
(* Json.dump, Yaml.dump *)

Json_dump(self, h, d) == Returned(Bytes("json", <<>>, records(h, d), NoSheet))

\* The printable ASCII characters in code-point order: from the space (32)
\* to the underscore (95), and from a (97) to the tilde (126).
AsciiToUnderscore ==
    <<" ","!","\"","#","$","%","&","'","(",")","*","+",",","-",".","/",
      "0","1","2","3","4","5","6","7","8","9",":",";","<","=",">","?",
      "@","A","B","C","D","E","F","G","H","I","J","K","L","M","N","O",
      "P","Q","R","S","T","U","V","W","X","Y","Z","[","\\","]","^","_">>

AsciiFromA ==
    <<"a","b","c","d","e","f","g","h","i","j","k","l","m","n","o","p",
      "q","r","s","t","u","v","w","x","y","z","{","|","}","~">>

\* ord(c)
ord(c) ==
    IF \E i \in 1..Len(AsciiToUnderscore) : AsciiToUnderscore[i] = c
    THEN 31 + CHOOSE i \in 1..Len(AsciiToUnderscore) : AsciiToUnderscore[i] = c
    ELSE 96 + CHOOSE i \in 1..Len(AsciiFromA) : AsciiFromA[i] = c

\* a < b of two str: the first differing character decides, a proper prefix
\* is the smaller.
str_lt(a, b) ==
    \/ \E i \in 1..Len(a) :
           /\ i <= Len(b)
           /\ \A j \in 1..(i - 1) : a[j] = b[j]
           /\ ord(a[i]) < ord(b[i])
    \/ /\ Len(a) < Len(b)
       /\ \A j \in 1..Len(a) : a[j] = b[j]

\* sorted(d.items()) of a dict with str keys.
sorted_items(d) ==
    [i \in 1..Len(d) |->
        d[CHOOSE j \in 1..Len(d) :
              Cardinality({k \in 1..Len(d) : str_lt(d[k][1], d[j][1])}) = i - 1]]

RECURSIVE yaml_represent(_)
\* What yaml.dump writes for a value: represent_dict sorts the items of every
\* mapping by key (sort_keys is True by default), those of a nested mapping
\* too.
yaml_represent(x) ==
    IF x.t = "dict"
    THEN LET items == sorted_items(x.v)
         IN  DictV([i \in 1..Len(items) |->
                       <<items[i][1], yaml_represent(items[i][2])>>])
    ELSE IF x.t = "list"
    THEN ListV([i \in 1..Len(x.v) |-> yaml_represent(x.v[i])])
    ELSE x

\* Line 272: yaml.dump(data), one mapping per record.
Yaml_dump(self, h, d) ==
    Returned(Bytes("yaml", <<>>,
                   [i \in 1..Len(d) |-> yaml_represent(DictV(h[d[i]])).v],
                   NoSheet))

---------------------------------------------------------------------------
(* Csv.dump, with csv.DictWriter *)

\* csv.writer, QUOTE_MINIMAL: a field holding the delimiter, the quote
\* character or a line break is quoted, its quote characters doubled.
csv_field(text) ==
    IF \E i \in 1..Len(text) : text[i] \in {",", "\"", "\r", "\n"}
    THEN <<"\"">>
         \o concat([i \in 1..Len(text) |->
                       IF text[i] = "\"" THEN <<"\"", "\"">> ELSE <<text[i]>>])
         \o <<"\"">>
    ELSE text

\* csv.writer.writerow: one line, without its line terminator.  A row of
\* one empty field is written as a pair of quotes.
csv_line(fields) ==
    IF Len(fields) = 1 /\ fields[1] = <<>>
    THEN <<"\"", "\"">>
    ELSE join(<<",">>, [i \in 1..Len(fields) |-> csv_field(fields[i])])

\* csv.writer's text of a value: None is the empty field, the rest is str().
csv_text(x) == IF x.t = "None" THEN <<>> ELSE str(x)

\* DictWriter._dict_to_list with extrasaction="raise": a key outside the
\* fieldnames raises ValueError; a missing key gives restval "".
csv_wrong_fields(fieldnames, entry) ==
    \E i \in 1..Len(entry) :
        \A j \in 1..Len(fieldnames) : fieldnames[j] # entry[i][1]

csv_row(fieldnames, entry) ==
    csv_line([j \in 1..Len(fieldnames) |->
                 IF contains(entry, fieldnames[j])
                 THEN csv_text(getitem(entry, fieldnames[j]))
                 ELSE <<>>])

\* Line 316: fieldnames=data[0].keys()
Csv_fieldnames(h, d) == keys(h[d[1]])

\* Line 320: if not self.only_header
Csv_writes_rows(self) == ~self.only_header

Csv_dump(self, h, d) ==
    IF Len(d) = 0 THEN Raised("IndexError")
    ELSE
    LET fieldnames == Csv_fieldnames(h, d)
        header == csv_line(fieldnames)
    IN  IF ~Csv_writes_rows(self)
        THEN Returned(Bytes("csv", <<header>>, <<>>, NoSheet))
        ELSE IF \E i \in 1..Len(d) : csv_wrong_fields(fieldnames, h[d[i]])
        THEN Raised("ValueError")
        ELSE Returned(Bytes("csv",
                            <<header>> \o [i \in 1..Len(d) |-> csv_row(fieldnames, h[d[i]])],
                            <<>>, NoSheet))

---------------------------------------------------------------------------
(* parse() of each codec.  raw is what a dump() of the same codec returned. *)

\* json.load and yaml.load: on str-keyed dicts of None, int, str and dict
\* values they return the document the text encodes.
Json_parse(raw) == Returned(raw.doc)
Yaml_parse(raw) == Returned(raw.doc)

\* The least number of a non-empty set of numbers.
least(S) == CHOOSE m \in S : \A n \in S : m <= n

\* csv.reader (excel dialect) on the first field of a text that starts with
\* the quote character: the position of the closing quote, which is the
\* first quote from position 2 on that is not doubled; one past the end
\* when the field is not closed.
csv_closing(rest) ==
    LET ends == { p \in 2..Len(rest) :
                    /\ rest[p] = "\""
                    /\ Cardinality({k \in 2..p : rest[k] = "\""}) % 2 = 1
                    /\ p = Len(rest) \/ rest[p + 1] # "\"" }
    IN  IF ends = {} THEN Len(rest) + 1 ELSE least(ends)

\* The position of the delimiter that ends the first field of rest: the
\* first comma, after the closing quote when the field is a quoted one;
\* one past the end when there is none.
csv_delimiter(rest) ==
    LET from   == IF rest # <<>> /\ rest[1] = "\"" THEN csv_closing(rest) + 1 ELSE 1
        commas == { p \in from..Len(rest) : rest[p] = "," }
    IN  IF commas = {} THEN Len(rest) + 1 ELSE least(commas)

\* The text of the first field of rest: as written for a plain field; for
\* a quoted field the text between the quotes with every doubled quote
\* once, then whatever follows the closing quote up to the delimiter.
csv_first(rest) ==
    IF rest # <<>> /\ rest[1] = "\""
    THEN LET close == csv_closing(rest)
             kept  == { p \in 2..(close - 1) :
                          \/ rest[p] # "\""
                          \/ Cardinality({k \in 2..p : rest[k] = "\""}) % 2 = 0 }
             idx   == SelectSeq([p \in 1..Len(rest) |-> p], LAMBDA p : p \in kept)
         IN  [i \in 1..Len(idx) |-> rest[idx[i]]]
             \o SubSeq(rest, close + 1, csv_delimiter(rest) - 1)
    ELSE SubSeq(rest, 1, csv_delimiter(rest) - 1)

RECURSIVE csv_fields(_)
\* The fields of a text that follows a delimiter or starts a line.
csv_fields(rest) ==
    LET stop  == csv_delimiter(rest)
        field == csv_first(rest)
    IN  IF stop > Len(rest) THEN <<field>>
        ELSE <<field>> \o csv_fields(SubSeq(rest, stop + 1, Len(rest)))

\* csv.reader on one line: its fields.  A blank line has no field.
csv_read(line) == IF line = <<>> THEN <<>> ELSE csv_fields(line)

\* csv.DictReader.__next__ on one row: dict(zip(fieldnames, row)), restval
\* None for the fieldnames the row is too short for.  (No row of the texts
\* parsed here is longer than the header.)
csv_dict(fieldnames, row) ==
    [j \in 1..Len(fieldnames) |->
        <<fieldnames[j], IF j <= Len(row) THEN StrV(row[j]) ELSE NoneV>>]

\* Lines 306-308: an empty text becomes None.
csv_entry(entry) ==
    [j \in 1..Len(entry) |->
        IF entry[j][2] = StrV(<<>>) THEN <<entry[j][1], NoneV>> ELSE entry[j]]

\* Csv.parse: the first line is the header, blank lines are skipped.
Csv_parse(raw) ==
    IF raw.lines = <<>> THEN Returned(<<>>)
    ELSE
    LET fieldnames == csv_read(raw.lines[1])
        rows == SelectSeq([i \in 1..(Len(raw.lines) - 1) |->
                              csv_read(raw.lines[i + 1])],
                          LAMBDA row : row # <<>>)
    IN  Returned([i \in 1..Len(rows) |-> csv_entry(csv_dict(fieldnames, rows[i]))])

\* Xlsx.parse
Xlsx_parse(raw) == Raised("NotImplementedError")

\* cls.parse(raw)
parse(cls, raw) ==
    IF cls = "Json" THEN Json_parse(raw)
    ELSE IF cls = "Yaml" THEN Yaml_parse(raw)
    ELSE IF cls = "Csv" THEN Csv_parse(raw)
    ELSE Xlsx_parse(raw)

---------------------------------------------------------------------------
(* Xlsx.dump *)

\* Column width limits and factor of Xlsx.__calc_column_widths.
MaxWidth == 80
MinWidth == 5
WidthPercent == 93

RECURSIVE get_column_letter(_)
\* openpyxl.utils.cell.get_column_letter, for col_idx >= 1
get_column_letter(col_idx) ==
    IF col_idx <= 26 THEN <<UpperLetters[col_idx]>>
    ELSE get_column_letter((col_idx - 1) \div 26)
         \o <<UpperLetters[((col_idx - 1) % 26) + 1]>>

\* Lines 490-493: the index (from 1) of the first record with the most keys.
longest_index(h, d) ==
    CHOOSE i \in 1..Len(d) :
        /\ \A j \in 1..Len(d) : Len(h[d[j]]) <= Len(h[d[i]])
        /\ \A j \in 1..(i-1) : Len(h[d[j]]) < Len(h[d[i]])

\* Xlsx.__longest_data_entry: the identity of the dict it returns, which it
\* also caches on the instance; IndexError on an empty list without cache.
longest_data_entry(self, h, d) ==
    IF ~IsNone(self.longest_entry_temp)
    THEN Returned(The(self.longest_entry_temp))
    ELSE IF Len(d) = 0 THEN Raised("IndexError")
    ELSE Returned(d[longest_index(h, d)])

\* Lines 402-403: the cells of one content row.
content_row(entry) == [i \in 1..Len(entry) |-> str(values(entry)[i])]

\* Lines 394, 402-403: the rows appended to the worksheet.
worksheet_rows(header_entry, h, d) ==
    <<keys(header_entry)>> \o [i \in 1..Len(d) |-> content_row(h[d[i]])]

\* Worksheet.max_column: 1 for a sheet without cells.
max_column(rows) ==
    LET lens == {Len(rows[i]) : i \in 1..Len(rows)} \cup {1}
    IN  CHOOSE m \in lens : \A n \in lens : n <= m

RECURSIVE header_probe(_, _)
\* Lines 509-510: for key in keys: header_data[key] = key
header_probe(header_data, ks) ==
    IF ks = <<>> THEN header_data
    ELSE header_probe(setitem(header_data, ks[1], StrV(ks[1])), Tail(ks))

\* Lines 513-519: the greatest len() among the str values under key.
widest_text(ks_key, h, d) ==
    LET lens == {0} \cup
                { Len(getitem(h[d[i]], ks_key).v) :
                    i \in { j \in 1..Len(d) :
                              /\ contains(h[d[j]], ks_key)
                              /\ isinstance(getitem(h[d[j]], ks_key), "str") } }
    IN  CHOOSE m \in lens : \A n \in lens : n <= m

\* Lines 522-528: math.ceil(value*0.93), kept within 5..80.
column_width(value) ==
    LET width == (value * WidthPercent + 99) \div 100
    IN  IF width > MaxWidth THEN MaxWidth
        ELSE IF width > MinWidth THEN width
        ELSE MinWidth

\* Xlsx.__max_cell
max_cell(header_entry, d) ==
    get_column_letter(Len(header_entry)) \o intstr(Len(d))

\* Line 468: the range the conditional-format rule is added to.
conditional_range(cell) == <<"A", "2", ":">> \o cell

\* Xlsx.__dimensions
dimensions(cell) == <<"A", "1", ":">> \o cell

\* Xlsx.dump: what it returns or raises, and the store, the list and the
\* instance it leaves behind.
Xlsx_dump(self, h, d) ==
    LET longest == longest_data_entry(self, h, d)
    IN  IF ~longest.ok
        THEN [result |-> Raised(longest.exc), heap |-> h, data |-> d, self |-> self]
        ELSE
        LET self1 == [self EXCEPT !.longest_entry_temp = Some(longest.value)]
            rows  == worksheet_rows(h[longest.value], h, d)
            \* __calc_column_widths
            ks    == keys(h[longest.value])
        IN  IF Len(d) = 0
            THEN [result |-> Raised("IndexError"), heap |-> h, data |-> d, self |-> self1]
            ELSE
            LET h1 == [h EXCEPT ![d[1]] = header_probe(h[d[1]], ks)]
                d1 == Append(d, d[1])
                widths == [c \in 1..Len(ks) |-> column_width(widest_text(ks[c], h1, d1))]
            IN  IF max_column(rows) > Len(widths)
                THEN [result |-> Raised("IndexError"), heap |-> h1, data |-> d1, self |-> self1]
                ELSE
                LET sheet ==
                        [ rows    |-> rows,
                          widths  |-> widths,
                          wrapped |-> [c \in 1..Len(widths) |-> widths[c] = MaxWidth],
                          conditional |-> conditional_range(max_cell(h1[longest.value], d1)),
                          table   |-> dimensions(max_cell(h1[longest.value], d1)) ]
                IN  [ result |-> Returned(Bytes("xlsx", <<>>, <<>>, sheet)),
                      heap |-> h1, data |-> d1, self |-> self1 ]

\* self.dump(data) of the instance's class.
dump(self, h, d) ==
    IF self.cls = "Xlsx" THEN Xlsx_dump(self, h, d)
    ELSE [ result |-> IF self.cls = "Json" THEN Json_dump(self, h, d)
                      ELSE IF self.cls = "Yaml" THEN Yaml_dump(self, h, d)
                      ELSE Csv_dump(self, h, d),
           heap |-> h, data |-> d, self |-> self ]

---------------------------------------------------------------------------
(* File.save *)

\* File.save: what it returns or raises and what it leaves behind.  The
\* output file is opened for writing, hence created or emptied, before
\* dump() runs.  decodable says whether the dumped bytes of a workbook
\* happen to be valid UTF-8, which the model leaves open.
save(self, h, d, dsk, decodable) ==
    LET h0 == level(self, h, d)
        e  == dump(self, h0, d)
    IN  IF IsNone(self.output_path)
        THEN IF ~supports_std(self.cls)
             THEN [ result |-> Raised("StdOutNotSupported"),
                    heap |-> h0, data |-> d, self |-> self,
                    disk |-> dsk, stdout |-> None ]
             ELSE IF ~e.result.ok
             THEN [ result |-> e.result, heap |-> e.heap, data |-> e.data,
                    self |-> e.self, disk |-> dsk, stdout |-> None ]
             ELSE IF self.cls = "Xlsx" /\ ~decodable
             THEN [ result |-> Raised("UnicodeDecodeError"),
                    heap |-> e.heap, data |-> e.data, self |-> e.self,
                    disk |-> dsk, stdout |-> None ]
             ELSE [ result |-> Returned(None), heap |-> e.heap, data |-> e.data,
                    self |-> e.self, disk |-> dsk,
                    stdout |-> Some(e.result.value) ]
        ELSE IF ~e.result.ok
             THEN [ result |-> e.result, heap |-> e.heap, data |-> e.data,
                    self |-> e.self, disk |-> Some(EmptyBytes), stdout |-> None ]
             ELSE [ result |-> Returned(None), heap |-> e.heap, data |-> e.data,
                    self |-> e.self, disk |-> Some(e.result.value),
                    stdout |-> None ]

---------------------------------------------------------------------------
(* File.load *)

\* Line 136, io.BytesIO(self.__read_stdin()): __read_stdin returns a str
\* and io.BytesIO takes a bytes-like object only, so the constructor raises
\* TypeError, whatever the text, before parse is called.
BytesIO_of_str(text) == Raised("TypeError")

\* Lines 136 and 159: __read_stdin returns rsl and load goes on with it.
load_stdin(self, rsl) ==
    LET raw == BytesIO_of_str(rsl)
    IN  IF ~raw.ok THEN raw ELSE parse(self.cls, raw.value)

\* Lines 138-139: with open(self.input_path, "rb") as file: parse(file)
load_file(self, dsk) ==
    IF IsNone(dsk) THEN Raised("FileNotFoundError")
    ELSE parse(self.cls, The(dsk))

---------------------------------------------------------------------------
(* Inputs *)

S_id    == <<"i","d">>
S_name  == <<"n","a","m","e">>
S_extra == <<"e","x","t","r","a">>

\* A text of 100 characters.
LongText == [i \in 1..100 |-> "x"]

R_flat   == << <<S_id, IntV(1)>>, <<S_name, StrV(<<"A">>)>> >>
R_nested == << <<S_id, IntV(2)>>, <<S_name, StrV(<<"B">>)>>,
               <<S_extra, DictV(<< <<<<"k">>, StrV(<<"v">>)>> >>)>> >>
R_deep   == << <<<<"a">>, DictV(<< <<<<"b">>, DictV(<< <<<<"c">>, IntV(1)>> >>)>> >>)>> >>
R_none   == << <<S_name, NoneV>>, <<S_id, IntV(3)>> >>
R_long   == << <<S_id, IntV(123456789)>>, <<S_name, StrV(LongText)>> >>
R_empty  == << >>

Records == {R_flat, R_nested, R_deep, R_none, R_long, R_empty}

\* The record lists a caller hands over.
RecordLists == UNION { [1..n -> Records] : n \in 0..MaxLen }

KwargsSet == { [only_header |-> None], [only_header |-> Some(TRUE)] }

Classes == {"Json", "Yaml", "Csv", "Xlsx"}

P_out == <<"o",".","c","s","v">>

\* Hints and paths of the runs that go on to save.
RunHints == { None, Some(<<"c","s","v">>), Some(<<"X","L","S","X">>),
              Some(<<"J","s","o","n">>), Some(<<"x","m","l">>) }
RunOutputPaths == { None, Some(P_out) }

\* Hints and paths of the resolver runs.
Hints == RunHints \cup { Some(<<"j","s","o","n">>), Some(<<"Y","A","M","L">>),
                         Some(<<"C","s","V">>), Some(<<>>) }
Paths == { None,
           Some(<<"a",".","j","s","o","n">>), Some(<<"b",".","J","S","O","N">>),
           Some(P_out), Some(<<"d",".","y","m","l">>),
           Some(<<"e",".","Y","a","m","l">>), Some(<<"f",".","x","l","s","x">>),
           Some(<<"g",".","t","x","t">>), Some(<<".","c","s","v">>),
           Some(<<"h">>), Some(<<"i",".","c","s","v",".">>) }

---------------------------------------------------------------------------
(* The state machine *)

\* No File.load and no purge is under way.
Idle == [pc |-> "idle"]
\* No NocoDB table is in reach.
NoRemote == [records |-> <<>>, requests |-> <<>>]

Init ==
    /\ inst = None
    /\ lastOp = [name |-> "init"]
    /\ result = Returned(None)
    /\ heap = <<>>
    /\ data = <<>>
    /\ disk \in {None, Some(OldBytes)}
    /\ pre = [heap |-> <<>>, data |-> <<>>, disk |-> disk, inst |-> None]
    /\ stdout = None
    /\ stdin = <<>>
    /\ proc = Idle
    /\ remote = NoRemote

\* inst = file(format_option, input_path, output_path, level_nested, **kwargs)
CallFile(format_option, input_path, output_path, level_nested, kwargs) ==
    LET r == file(format_option, input_path, output_path, level_nested, kwargs)
    IN  /\ lastOp.name = "init"
        /\ lastOp' = [ name |-> "file", format_option |-> format_option,
                       input_path |-> input_path, output_path |-> output_path,
                       level_nested |-> level_nested, kwargs |-> kwargs ]
        /\ result' = r
        /\ inst' = IF r.ok THEN Some(r.value) ELSE inst
        /\ pre' = [heap |-> heap, data |-> data, disk |-> disk, inst |-> inst]
        /\ UNCHANGED <<heap, data, disk, stdout, stdin, proc, remote>>

\* inst = Json(...), Yaml(...), Csv(..., **kwargs) or Xlsx(..., **kwargs);
\* the constructors of Json and Yaml take no keyword argument.
Construct(cls, output_path, level_nested, kwargs) ==
    LET self == NewInstance(cls, None, output_path, level_nested, kwargs)
    IN  /\ lastOp.name = "init"
        /\ cls \in {"Csv", "Xlsx"} \/ kwargs = NoKwargs
        /\ lastOp' = [ name |-> "construct", cls |-> cls,
                       output_path |-> output_path,
                       level_nested |-> level_nested, kwargs |-> kwargs ]
        /\ result' = Returned(self)
        /\ inst' = Some(self)
        /\ pre' = [heap |-> heap, data |-> data, disk |-> disk, inst |-> inst]
        /\ UNCHANGED <<heap, data, disk, stdout, stdin, proc, remote>>

\* The caller obtains a list of records.
NewData(R) ==
    /\ ~IsNone(inst)
    /\ lastOp.name \in {"file", "construct"}
    /\ lastOp' = [name |-> "data"]
    /\ result' = Returned(None)
    /\ heap' = R
    /\ data' = [i \in 1..Len(R) |-> i]
    /\ pre' = [heap |-> heap, data |-> data, disk |-> disk, inst |-> inst]
    /\ UNCHANGED <<inst, disk, stdout, stdin, proc, remote>>

\* inst.save(data)
CallSave(decodable) ==
    /\ ~IsNone(inst)
    /\ lastOp.name \notin {"file", "construct"}
    /\ Len(data) <= MaxRecords
    /\ LET e == save(The(inst), heap, data, disk, decodable)
       IN  /\ lastOp' = [name |-> "save"]
           /\ result' = e.result
           /\ inst' = Some(e.self)
           /\ heap' = e.heap
           /\ data' = e.data
           /\ disk' = e.disk
           /\ stdout' = e.stdout
    /\ pre' = [heap |-> heap, data |-> data, disk |-> disk, inst |-> inst]
    /\ UNCHANGED <<stdin, proc, remote>>

\* inst.dump(data)
CallDump ==
    /\ ~IsNone(inst)
    /\ lastOp.name \notin {"file", "construct"}
    /\ Len(data) <= MaxRecords
    /\ LET e == dump(The(inst), heap, data)
       IN  /\ lastOp' = [name |-> "dump"]
           /\ result' = e.result
           /\ inst' = Some(e.self)
           /\ heap' = e.heap
           /\ data' = e.data
    /\ pre' = [heap |-> heap, data |-> data, disk |-> disk, inst |-> inst]
    /\ UNCHANGED <<disk, stdout, stdin, proc, remote>>

\* inst._File__level(data)
CallLevel ==
    /\ ~IsNone(inst)
    /\ lastOp.name \notin {"file", "construct"}
    /\ lastOp' = [name |-> "level"]
    /\ result' = Returned(data)
    /\ heap' = level(The(inst), heap, data)
    /\ pre' = [heap |-> heap, data |-> data, disk |-> disk, inst |-> inst]
    /\ UNCHANGED <<inst, data, disk, stdout, stdin, proc, remote>>

\* type(inst).parse(io.BytesIO(raw)), raw the bytes the dump just returned.
CallParse ==
    /\ ~IsNone(inst)
    /\ lastOp.name = "dump"
    /\ result.ok
    /\ lastOp' = [name |-> "parse", raw |-> result.value]
    /\ result' = parse(The(inst).cls, result.value)
    /\ pre' = [heap |-> heap, data |-> data, disk |-> disk, inst |-> inst]
    /\ UNCHANGED <<inst, heap, data, disk, stdout, stdin, proc, remote>>

Next ==
    \/ \E fo \in RunHints, op \in RunOutputPaths, ln \in BOOLEAN, kw \in KwargsSet :
           CallFile(fo, None, op, ln, kw)
    \/ \E cls \in Classes, op \in RunOutputPaths, ln \in BOOLEAN, kw \in KwargsSet :
           Construct(cls, op, ln, kw)
    \/ \E R \in RecordLists : NewData(R)
    \/ \E decodable \in BOOLEAN : CallSave(decodable)
    \/ CallDump
    \/ CallLevel
    \/ CallParse

Spec == Init /\ [][Next]_vars

\* Records for the flattening alone.
R_sample == << <<<<"a">>, IntV(1)>>,
               <<<<"b">>, DictV(<< <<<<"x">>, IntV(2)>>, <<<<"y">>, IntV(3)>> >>)>> >>
R_clash  == << <<<<"b","_","x">>, IntV(1)>>,
               <<<<"b">>, DictV(<< <<<<"x">>, IntV(2)>> >>)>> >>
R_hollow == << <<S_id, IntV(4)>>, <<<<"b">>, DictV(<<>>)>> >>

LevelRecords == {R_flat, R_nested, R_deep, R_sample, R_clash, R_hollow}
LevelLists == UNION { [1..n -> LevelRecords] : n \in 0..MaxLen }

\* The flattening alone: an instance, a list of records, File.__level.
NextLevel ==
    \/ \E cls \in Classes, ln \in BOOLEAN : Construct(cls, None, ln, NoKwargs)
    \/ \E R \in LevelLists : NewData(R)
    \/ CallLevel

SpecLevel == Init /\ [][NextLevel]_vars

\* What standard input holds: the lines of a JSON text, of a CSV text, or
\* nothing.
T_json == << <<"[","{","\"","i","d","\"",":"," ","1","}","]","\n">> >>
T_csv  == << <<"i","d",",","n","a","m","e","\n">>,
             <<"1",",","A","\n">> >>
StdinTexts == { <<>>, T_json, T_csv }

\* A file written earlier by the codec of class cls.
FileOf(cls) ==
    dump(NewInstance(cls, None, None, FALSE, NoKwargs),
         <<R_flat, R_none>>, <<1, 2>>).result.value

\* The input paths of the loading runs, by the format of their extension.
LoadPaths == [ json |-> <<"a",".","j","s","o","n">>, yaml |-> <<"d",".","y","m","l">>,
               csv  |-> P_out,                       xlsx |-> <<"f",".","x","l","s","x">> ]
LoadHints == { None, Some(<<"j","s","o","n">>), Some(<<"c","s","v">>),
               Some(<<"x","l","s","x">>) }

InitLoad ==
    /\ inst = None
    /\ lastOp = [name |-> "init"]
    /\ result = Returned(None)
    /\ heap = <<>>
    /\ data = <<>>
    /\ disk \in {None} \cup { Some(FileOf(cls)) : cls \in Classes }
    /\ pre = [heap |-> <<>>, data |-> <<>>, disk |-> disk, inst |-> None]
    /\ stdout = None
    /\ stdin \in StdinTexts
    /\ proc = Idle
    /\ remote = NoRemote

\* inst = file(format_option, input_path, None, False): without input path
\* under any hint, or without hint on a path whose file, when there is one,
\* holds the format of the path's extension.
ObtainLoader(format_option, fmt) ==
    \/ CallFile(format_option, None, None, FALSE, NoKwargs)
    \/ /\ IsNone(format_option)
       /\ IF IsNone(disk) THEN TRUE ELSE The(disk).fmt = fmt
       /\ CallFile(None, Some(LoadPaths[fmt]), None, FALSE, NoKwargs)

\* inst.load() up to its read or to its entry into __read_stdin.
LoadBegin ==
    /\ ~IsNone(inst)
    /\ lastOp.name = "file"
    /\ LET self == The(inst)
       IN  IF IsNone(self.input_path)
           THEN IF ~supports_std(self.cls)
                THEN /\ lastOp' = [name |-> "load", drained |-> None,
                                   interrupted |-> FALSE, flushed |-> FALSE]
                     /\ result' = Raised("StdInNotSupported")
                     /\ proc' = proc
                ELSE /\ lastOp' = [name |-> "read_stdin"]
                     /\ result' = Returned(None)
                     /\ proc' = [pc |-> "read_stdin", rsl |-> <<>>]
           ELSE /\ lastOp' = [name |-> "load", drained |-> None,
                              interrupted |-> FALSE, flushed |-> FALSE]
                /\ result' = load_file(self, disk)
                /\ proc' = proc
    /\ pre' = [heap |-> heap, data |-> data, disk |-> disk, inst |-> inst]
    /\ UNCHANGED <<inst, heap, data, disk, stdout, stdin, remote>>

\* Lines 156-157: for line in sys.stdin: rsl += line
ReadLine ==
    /\ proc.pc = "read_stdin"
    /\ stdin # <<>>
    /\ proc' = [proc EXCEPT !.rsl = @ \o Head(stdin)]
    /\ stdin' = Tail(stdin)
    /\ UNCHANGED <<inst, lastOp, result, heap, data, pre, disk, stdout, remote>>

\* Lines 158-160 and 136: __read_stdin returns rsl, after sys.stdout.flush()
\* when a KeyboardInterrupt ended the loop, and load goes on with the text.
ReadStdinReturns(interrupted) ==
    /\ proc.pc = "read_stdin"
    /\ lastOp' = [name |-> "load", drained |-> Some(proc.rsl),
                  interrupted |-> interrupted, flushed |-> interrupted]
    /\ result' = load_stdin(The(inst), proc.rsl)
    /\ proc' = Idle
    /\ UNCHANGED <<inst, heap, data, pre, disk, stdout, stdin, remote>>

\* The loop of __read_stdin meets the end of the stream.
EndOfStream == stdin = <<>> /\ ReadStdinReturns(FALSE)

\* A KeyboardInterrupt is raised inside the loop of __read_stdin.
KeyboardInterrupt == proc.pc = "read_stdin" /\ ReadStdinReturns(TRUE)

NextLoad ==
    \/ \E fo \in LoadHints, fmt \in DOMAIN LoadPaths : ObtainLoader(fo, fmt)
    \/ LoadBegin
    \/ ReadLine
    \/ EndOfStream
    \/ KeyboardInterrupt

SpecLoad == InitLoad /\ [][NextLoad]_vars

\* Records and lists for two dumps by one instance.
AgainRecords == {R_flat, R_none, R_nested, R_empty}
AgainLists == UNION { [1..n -> AgainRecords] : n \in 0..MaxLen }

\* The caller obtains another list of records after a dump; the dicts of
\* the earlier list stay alive as long as the instance refers to one.
NextData(R) ==
    /\ ~IsNone(inst)
    /\ lastOp.name = "dump"
    /\ Len(heap) <= MaxLen
    /\ lastOp' = [name |-> "data"]
    /\ result' = Returned(None)
    /\ heap' = heap \o R
    /\ data' = [i \in 1..Len(R) |-> Len(heap) + i]
    /\ pre' = [heap |-> heap, data |-> data, disk |-> disk, inst |-> inst]
    /\ UNCHANGED <<inst, disk, stdout, stdin, proc, remote>>

\* inst.dump(data) on a list just obtained.
DumpData == lastOp.name = "data" /\ CallDump

\* One Xlsx instance dumping one list after the other.
NextAgain ==
    \/ Construct("Xlsx", None, FALSE, NoKwargs)
    \/ \E R \in AgainLists : NewData(R)
    \/ \E R \in AgainLists : NextData(R)
    \/ DumpData

SpecAgain == Init /\ [][NextAgain]_vars

---------------------------------------------------------------------------
(* The commands that change a table: push, purge, update, update_field     *)
(* (src/cli/cli.py)                                                        *)

\* Most records the NocoDB table holds.
MaxRows == 3

S_base_url   == <<"b","a","s","e","_","u","r","l">>
S_auth_token == <<"a","u","t","h","_","t","o","k","e","n">>

\* Config.from_file on the JSON object a config file holds: parse_raw gives
\* a Config when both fields are there, a ValidationError else.
Config_from_file(content) ==
    IF /\ contains(content, S_base_url)
       /\ contains(content, S_auth_token)
       /\ isinstance(getitem(content, S_base_url), "str")
       /\ isinstance(getitem(content, S_auth_token), "str")
    THEN Returned([ base_url   |-> getitem(content, S_base_url).v,
                    auth_token |-> getitem(content, S_auth_token).v ])
    ELSE Raised("ValidationError")

\* __check_get_config.  config_file is the content of the file at --config
\* (click takes an existing path only), url and token are the texts given.
\* Every click.BadOptionUsage(...) of lines 52, 56 and 62 is called with the
\* message alone while its constructor takes the option name and the message,
\* so the call itself raises TypeError; Config(url, token) on line 60 passes
\* positional arguments to a pydantic model, which takes keyword arguments
\* only.  A Config comes back only from a config file alone.
check_get_config(config_file, url, token) ==
    LET got_config == ~IsNone(config_file)
        got_url    == ~IsNone(url) \/ url = Some(<<>>)
        got_token  == ~IsNone(token) \/ token = Some(<<>>)
    IN  IF got_config /\ (got_url \/ got_token) THEN Raised("TypeError")
        ELSE IF got_url # got_token THEN Raised("TypeError")
        ELSE IF got_url /\ got_token THEN Raised("TypeError")
        ELSE IF ~got_config THEN Raised("TypeError")
        ELSE Config_from_file(The(config_file))

\* __get_client: the Client of the table, or what __check_get_config raised.
get_client(config_file, url, table, token) ==
    LET config == check_get_config(config_file, url, token)
    IN  IF ~config.ok THEN config
        ELSE Returned([ base_url   |-> config.value.base_url,
                        table      |-> table,
                        auth_token |-> config.value.auth_token ])

\* Lines 76-83: the extension is none of .json, .csv, .yaml and .yml, which
\* __determine_file_type reports on standard output.
unknown_file_type(input_file, format_option) ==
    /\ IsNone(format_option)
    /\ ~IsNone(input_file)
    /\ lower(suffix(The(input_file))) \notin
           { <<".","j","s","o","n">>, <<".","c","s","v">>,
             <<".","y","a","m","l">>, <<".","y","m","l">> }

\* __determine_file_type
determine_file_type(input_file, format_option) ==
    IF ~IsNone(format_option) THEN The(format_option)
    ELSE IF ~IsNone(input_file) /\ lower(suffix(The(input_file))) = <<".","j","s","o","n">>
    THEN "JSON"
    ELSE IF ~IsNone(input_file) /\ lower(suffix(The(input_file))) = <<".","c","s","v">>
    THEN "CSV"
    ELSE "YAML"

\* What open(input_file) in text mode hands on of one row of the file:
\* universal newlines turn every "\r\n" and every other "\r" into "\n",
\* also inside a quoted field.
universal_newlines(line) ==
    LET idx == SelectSeq([p \in 1..Len(line) |-> p],
                         LAMBDA p : ~( /\ line[p] = "\r"
                                       /\ p < Len(line)
                                       /\ line[p + 1] = "\n" ))
    IN  [i \in 1..Len(idx) |->
            IF line[idx[i]] = "\r" THEN "\n" ELSE line[idx[i]]]

\* __load_csv: csv.DictReader over the text of the file, opened in text
\* mode, every empty field turned into None.
load_csv(raw) ==
    LET lines == [i \in 1..Len(raw.lines) |-> universal_newlines(raw.lines[i])]
    IN  IF lines = <<>> THEN <<>>
        ELSE
        LET fieldnames == csv_read(lines[1])
            rows == SelectSeq([i \in 1..(Len(lines) - 1) |-> csv_read(lines[i + 1])],
                              LAMBDA row : row # <<>>)
        IN  [i \in 1..Len(rows) |-> csv_entry(csv_dict(fieldnames, rows[i]))]

\* __load_input; raw is what the file at input_file holds.  yaml.load is
\* called without a Loader, which the pyyaml 5.4.1 of setup.py accepts.
load_input(input_file, raw, format_option) ==
    LET fmt == determine_file_type(input_file, format_option)
    IN  IF fmt = "YAML" THEN raw.doc
        ELSE IF fmt = "JSON" THEN raw.doc
        ELSE IF fmt = "CSV" THEN load_csv(raw)
        ELSE None

\* Line 381 with the answer compared whatever its letter case.
answered_ok_anyCase(user) == lower(user) = <<"y">>

\* Line 381: the answer to "Is this ok (Y/n): " that lets purge go on.
answered_ok(user) == user = <<"Y">>

\* Line 388: the answer to the second prompt that lets purge go on.
answered_table(user, table) == user = table

\* Line 501: the answer to "Is this ok (Y/n): " that lets update_field go on.
answered_change(user) == user = <<"Y">>

\* The table names and what a user may type at a prompt.
Tables  == { <<"t">>, <<"Y">> }
Answers == { <<"Y">>, <<"y">>, <<"Y"," ">>, <<"n">>, <<>>, <<"t">>, <<"T">> }

\* The records of a table with n rows.
Rows(n) == [i \in 1..n |-> << <<S_id, IntV(i)>>, <<S_name, StrV(<<"A">>)>> >>]

\* The options of a run: config_file, url and token.  The config files are
\* a whole one, one without its token and an empty object.
ConnectionOptions ==
    { None,
      Some(<< <<S_base_url, StrV(<<"u">>)>>, <<S_auth_token, StrV(<<"k">>)>> >>),
      Some(<< <<S_base_url, StrV(<<"u">>)>> >>),
      Some(<<>>) }
    \X { None, Some(<<"u">>), Some(<<>>) }
    \X { None, Some(<<"k">>) }

\* A file written earlier by the codec of class cls with the records recs.
Written(cls, recs) ==
    dump(NewInstance(cls, None, None, FALSE, NoKwargs),
         recs, [i \in 1..Len(recs) |-> i]).result.value

\* The input files of push and update: a name and what the file holds.  The
\* format option of a run is none or the format the file is written in.
InputFiles ==
    { [name |-> <<"a",".","j","s","o","n">>, fmt |-> "JSON", raw |-> FileOf("Json")],
      [name |-> <<"d",".","Y","M","L">>,     fmt |-> "YAML", raw |-> FileOf("Yaml")],
      [name |-> <<"n",".","t","x","t">>,     fmt |-> "YAML", raw |-> FileOf("Yaml")],
      [name |-> <<"o",".","c","s","v">>,     fmt |-> "CSV",  raw |-> FileOf("Csv")],
      [name |-> <<"e",".","c","s","v">>,     fmt |-> "CSV",  raw |-> EmptyBytes] }
UpdateFiles ==
    { [name |-> <<"o",".","c","s","v">>,
       raw  |-> Written("Csv", << << <<S_id, IntV(1)>>, <<S_name, StrV(<<"Z">>)>> >> >>)],
      [name |-> <<"n",".","t","x","t">>,
       raw  |-> Written("Csv", << << <<S_id, IntV(9)>>, <<S_name, StrV(<<"Z">>)>> >>,
                                  << <<S_id, IntV(1)>>, <<S_name, StrV(<<"Z">>)>> >> >>)],
      [name |-> <<"r",".","c","s","v">>,
       raw  |-> Written("Csv", << << <<S_id, IntV(1)>>,
                                     <<S_name, StrV(<<"a","\r","b">>)>> >>,
                                  << <<S_id, IntV(2)>>,
                                     <<S_name, StrV(<<"a","\r","\n","b">>)>> >> >>)] }

\* nocopy.Client, a library outside this repository: each call sends one
\* request, and the table is taken to do what the request asks.  A where
\* clause is given by the id it selects.
client_list(rem, where) ==
    IF IsNone(where) THEN rem.records
    ELSE SelectSeq(rem.records, LAMBDA row : getitem(row, S_id) = IntV(The(where)))

client_add(rem, recs) ==
    [ records  |-> rem.records \o recs,
      requests |-> Append(rem.requests, <<"add", recs>>) ]

client_delete(rem, id) ==
    [ records  |-> SelectSeq(rem.records, LAMBDA row : getitem(row, S_id) # id),
      requests |-> Append(rem.requests, <<"delete", id>>) ]

client_update(rem, id, item) ==
    [ records  |-> [i \in 1..Len(rem.records) |->
                       IF getitem(rem.records[i], S_id) = id
                       THEN update(rem.records[i], item)
                       ELSE rem.records[i]],
      requests |-> Append(rem.requests, <<"update", id, item>>) ]

\* The entries of recs carrying the id of row, as the text of a CSV field.
entries_for(row, recs) ==
    SelectSeq(recs, LAMBDA entry :
                  /\ contains(entry, S_id)
                  /\ str(getitem(entry, S_id)) = str(getitem(row, S_id)))

RECURSIVE apply_entries(_, _)
apply_entries(row, entries) ==
    IF entries = <<>> THEN row
    ELSE apply_entries(update(row, delitem(entries[1], S_id)), Tail(entries))

client_bulk_update(rem, recs) ==
    [ records  |-> [i \in 1..Len(rem.records) |->
                       apply_entries(rem.records[i],
                                     entries_for(rem.records[i], recs))],
      requests |-> Append(rem.requests, <<"bulk_update", recs>>) ]

InitCli ==
    /\ inst = None
    /\ lastOp = [name |-> "init"]
    /\ result = Returned(None)
    /\ heap = <<>>
    /\ data = <<>>
    /\ disk = None
    /\ pre = [heap |-> <<>>, data |-> <<>>, disk |-> None, inst |-> None]
    /\ stdout = None
    /\ stdin = <<>>
    /\ proc = Idle
    /\ remote \in { [records |-> Rows(n), requests |-> <<>>] : n \in 0..MaxRows }

\* click.progressbar(records, label=..., show_pos=True) on standard output,
\* by what it has written last.  On a terminal it draws the bar with the
\* position when the with block is entered and after every record, and
\* closes the line when the block is left.  Elsewhere it writes the label
\* once, when the block is entered, and nothing after.
progressbar(label, pos, length, finished, isatty) ==
    IF isatty
    THEN Some([text |-> label, pos |-> pos, length |-> length,
               finished |-> finished])
    ELSE Some([text |-> label])

\* input(prompt) on standard output, by what has been written last, before
\* it waits for the line.  With standard input and standard output both a
\* terminal the prompt goes to standard error and standard output keeps
\* what it had; otherwise the prompt is written to standard output.
input(prompt, written, isatty, stdin_isatty) ==
    IF isatty /\ stdin_isatty
    THEN written
    ELSE Some([text |-> prompt])

\* A command that ended; no prompt was answered and nothing was listed.
Ended(cmd, table) ==
    [cmd |-> cmd, pc |-> "done", table |-> table, said |-> <<>>,
     records |-> <<>>, listed |-> <<>>]

\* push, lines 303-306: the client, the records of the input file, then
\* client.add(data).
Push(table, config_file, url, token, input_file, raw, file_format) ==
    LET client == get_client(config_file, url, table, token)
    IN  /\ proc.pc = "idle"
        /\ lastOp.name = "init"
        /\ lastOp' = [name |-> "push"]
        /\ proc' = Ended("push", table)
        /\ IF ~client.ok
           THEN /\ result' = client
                /\ stdout' = stdout
                /\ remote' = remote
           ELSE /\ result' = Returned(None)
                /\ stdout' = IF unknown_file_type(Some(input_file), file_format)
                             THEN Some([text |-> "is a unknown file type, default to YAML",
                                        suffix |-> suffix(input_file)])
                             ELSE stdout
                /\ remote' = client_add(remote,
                                 load_input(Some(input_file), raw, file_format))
        /\ UNCHANGED <<inst, heap, data, pre, disk, stdin>>

\* update, lines 473-475: the client, the records of the CSV file, then
\* client.bulk_update(data).
Update(table, config_file, url, token, raw) ==
    LET client == get_client(config_file, url, table, token)
    IN  /\ proc.pc = "idle"
        /\ lastOp.name = "init"
        /\ lastOp' = [name |-> "update"]
        /\ proc' = Ended("update", table)
        /\ IF ~client.ok
           THEN /\ result' = client
                /\ remote' = remote
           ELSE /\ result' = Returned(None)
                /\ remote' = client_bulk_update(remote, load_csv(raw))
        /\ UNCHANGED <<inst, heap, data, pre, disk, stdout, stdin>>

\* update_field, lines 494-500: the client, client.list(where=where,
\* as_dict=True), the count printed and the prompt.
UpdateFieldBegin(table, config_file, url, token, field, value, where, isatty, stdin_isatty) ==
    LET client == get_client(config_file, url, table, token)
        found  == client_list(remote, where)
    IN  /\ proc.pc = "idle"
        /\ lastOp.name = "init"
        /\ IF ~client.ok
           THEN /\ lastOp' = [name |-> "update_field"]
                /\ result' = client
                /\ proc' = Ended("update_field", table)
                /\ stdout' = stdout
                /\ remote' = remote
           ELSE /\ lastOp' = [name |-> "update_field_prompt"]
                /\ result' = Returned(None)
                /\ proc' = [cmd |-> "update_field", pc |-> "ask_change",
                            table |-> table, said |-> <<>>,
                            records |-> found, listed |-> found,
                            field |-> field, value |-> value,
                            isatty |-> isatty,
                            stdin_isatty |-> stdin_isatty]
                /\ stdout' = input("Is this ok (Y/n): ",
                                   Some([text |-> "About to change the field",
                                         field |-> field, value |-> value,
                                         occurrences |-> Len(found)]),
                                   isatty, stdin_isatty)
                /\ remote' = [remote EXCEPT
                                 !.requests = Append(@, <<"list", where>>)]
        /\ UNCHANGED <<inst, heap, data, pre, disk, stdin>>

\* Lines 500-508: the answer to the prompt of update_field, then the
\* progress bar is entered.
AnswerChange(user) ==
    /\ proc.pc = "ask_change"
    /\ IF ~answered_change(user)
       THEN /\ stdout' = Some([text |-> "aborting..."])
            /\ lastOp' = [name |-> "update_field"]
            /\ result' = Raised("SystemExit(0)")
            /\ proc' = [proc EXCEPT !.pc = "done", !.said = Append(@, user)]
       ELSE /\ stdout' = progressbar(<<"update field", proc.field>>, 0, Len(proc.listed),
                                     FALSE, proc.isatty)
            /\ lastOp' = [name |-> "update_field_prompt"]
            /\ result' = result
            /\ proc' = [proc EXCEPT !.pc = "updating", !.said = Append(@, user)]
    /\ UNCHANGED <<inst, heap, data, pre, disk, stdin, remote>>

\* Lines 509-510: for record in bar: client.update(record["id"], {field: value})
UpdateNext ==
    /\ proc.pc = "updating"
    /\ proc.records # <<>>
    /\ remote' = client_update(remote, getitem(Head(proc.records), S_id),
                               << <<proc.field, StrV(proc.value)>> >>)
    /\ proc' = [proc EXCEPT !.records = Tail(@)]
    /\ stdout' = progressbar(<<"update field", proc.field>>,
                             Len(proc.listed) - Len(Tail(proc.records)),
                             Len(proc.listed), FALSE, proc.isatty)
    /\ lastOp' = [name |-> "update_field_update"]
    /\ UNCHANGED <<inst, result, heap, data, pre, disk, stdin>>

\* The loop over the records ends and update_field returns.
UpdateFieldEnd ==
    /\ proc.pc = "updating"
    /\ proc.records = <<>>
    /\ proc' = [proc EXCEPT !.pc = "done"]
    /\ stdout' = progressbar(<<"update field", proc.field>>, Len(proc.listed), Len(proc.listed),
                             TRUE, proc.isatty)
    /\ lastOp' = [name |-> "update_field"]
    /\ result' = Returned(None)
    /\ UNCHANGED <<inst, heap, data, pre, disk, stdin, remote>>

\* Lines 376-380: purge gets its client, prints the warning and prompts.
\* said is the history of the answers typed, no variable of the code.
PurgeBegin(table, config_file, url, token, isatty, stdin_isatty) ==
    LET client == get_client(config_file, url, table, token)
    IN  /\ proc.pc = "idle"
        /\ lastOp.name = "init"
        /\ IF ~client.ok
           THEN /\ lastOp' = [name |-> "purge"]
                /\ result' = client
                /\ proc' = Ended("purge", table)
                /\ stdout' = stdout
           ELSE /\ lastOp' = [name |-> "purge_prompt"]
                /\ result' = Returned(None)
                /\ proc' = [cmd |-> "purge", pc |-> "ask_ok", table |-> table,
                            said |-> <<>>, records |-> <<>>, listed |-> <<>>,
                            isatty |-> isatty,
                            stdin_isatty |-> stdin_isatty]
                /\ stdout' = input("Is this ok (Y/n): ",
                                   Some([text |-> "This will PERMANENTLY delete ALL data",
                                         table |-> table,
                                         base_url |-> client.value.base_url]),
                                   isatty, stdin_isatty)
        /\ UNCHANGED <<inst, heap, data, pre, disk, stdin, remote>>

\* Lines 380-387: the answer to the first prompt, then the second prompt.
AnswerOk(user) ==
    /\ proc.pc = "ask_ok"
    /\ IF ~answered_ok(user)
       THEN /\ stdout' = Some([text |-> "aborting..."])
            /\ lastOp' = [name |-> "purge"]
            /\ result' = Raised("SystemExit(0)")
            /\ proc' = [proc EXCEPT !.pc = "done", !.said = Append(@, user)]
       ELSE /\ stdout' = input("Sure? Think again and then type the name of the table to proceed: ",
                               stdout, proc.isatty, proc.stdin_isatty)
            /\ lastOp' = [name |-> "purge_prompt"]
            /\ result' = result
            /\ proc' = [proc EXCEPT !.pc = "ask_table", !.said = Append(@, user)]
    /\ UNCHANGED <<inst, heap, data, pre, disk, stdin, remote>>

\* Lines 385-395: the answer to the second prompt, then client.list() and
\* the progress bar is entered.
AnswerTable(user) ==
    /\ proc.pc = "ask_table"
    /\ IF ~answered_table(user, proc.table)
       THEN /\ lastOp' = [name |-> "purge"]
            /\ result' = Raised("SystemExit(0)")
            /\ proc' = [proc EXCEPT !.pc = "done", !.said = Append(@, user)]
            /\ remote' = remote
            /\ stdout' = stdout
       ELSE /\ lastOp' = [name |-> "purge_list"]
            /\ result' = result
            /\ proc' = [proc EXCEPT !.pc = "deleting", !.said = Append(@, user),
                                    !.records = client_list(remote, None),
                                    !.listed = client_list(remote, None)]
            /\ remote' = [remote EXCEPT !.requests = Append(@, <<"list">>)]
            /\ stdout' = progressbar("Purge records...", 0,
                                     Len(client_list(remote, None)),
                                     FALSE, proc.isatty)
    /\ UNCHANGED <<inst, heap, data, pre, disk, stdin>>

\* input() meets the end of standard input at a prompt.
InputEnds ==
    /\ proc.pc \in {"ask_ok", "ask_table", "ask_change"}
    /\ lastOp' = [name |-> proc.cmd]
    /\ result' = Raised("EOFError")
    /\ proc' = [proc EXCEPT !.pc = "done"]
    /\ UNCHANGED <<inst, heap, data, pre, disk, stdout, stdin, remote>>

\* Lines 396-397: for record in bar: client.delete(record["id"])
DeleteNext ==
    /\ proc.pc = "deleting"
    /\ proc.records # <<>>
    /\ remote' = client_delete(remote, getitem(Head(proc.records), S_id))
    /\ proc' = [proc EXCEPT !.records = Tail(@)]
    /\ stdout' = progressbar("Purge records...",
                             Len(proc.listed) - Len(Tail(proc.records)),
                             Len(proc.listed), FALSE, proc.isatty)
    /\ lastOp' = [name |-> "purge_delete"]
    /\ UNCHANGED <<inst, result, heap, data, pre, disk, stdin>>

\* The loop over the records ends and purge returns.
PurgeEnd ==
    /\ proc.pc = "deleting"
    /\ proc.records = <<>>
    /\ proc' = [proc EXCEPT !.pc = "done"]
    /\ stdout' = progressbar("Purge records...", Len(proc.listed),
                             Len(proc.listed), TRUE, proc.isatty)
    /\ lastOp' = [name |-> "purge"]
    /\ result' = Returned(None)
    /\ UNCHANGED <<inst, heap, data, pre, disk, stdin, remote>>

\* __get_csv: the header from the keys of data[0], then one row per entry
\* unless only_header.  data[0] raises IndexError on an empty list and
\* KeyError on a dict, whose keys are str.
get_csv(recs, only_header) ==
    IF recs.t = "dict" THEN Raised("KeyError")
    ELSE IF recs.v = <<>> THEN Raised("IndexError")
    ELSE
    LET fieldnames == keys(recs.v[1].v)
        header == csv_line(fieldnames)
    IN  IF only_header
        THEN Returned(Bytes("csv", <<header>>, <<>>, NoSheet))
        ELSE IF \E i \in 1..Len(recs.v) : csv_wrong_fields(fieldnames, recs.v[i].v)
        THEN Raised("ValueError")
        ELSE Returned(Bytes("csv",
                            <<header>> \o [i \in 1..Len(recs.v) |->
                                              csv_row(fieldnames, recs.v[i].v)],
                            <<>>, NoSheet))

\* __write_output, lines 145-151: rsl, the text of data in the format found.
write_output(output_file, format_option, recs, only_header) ==
    LET fmt == determine_file_type(output_file, format_option)
    IN  IF fmt = "YAML"
        THEN Returned(Bytes("yaml", <<>>, yaml_represent(recs), NoSheet))
        ELSE IF fmt = "JSON"
        THEN Returned(Bytes("json", <<>>, recs, NoSheet))
        ELSE get_csv(recs, only_header)

\* __write_output as the last call of a command: the note on an unknown
\* extension, then rsl written to output_file (lines 153-155), or printed
\* when there is none (line 157); nothing of the two when rsl raised.
WriteOutput(output_file, format_option, recs, only_header) ==
    LET rsl == write_output(output_file, format_option, recs, only_header)
    IN  /\ result' = IF rsl.ok THEN Returned(None) ELSE rsl
        /\ disk' = IF rsl.ok /\ ~IsNone(output_file) THEN Some(rsl.value) ELSE disk
        /\ stdout' = IF rsl.ok /\ IsNone(output_file) THEN Some(rsl.value)
                     ELSE IF unknown_file_type(output_file, format_option)
                     THEN Some([text |-> "is a unknown file type, default to YAML",
                                suffix |-> suffix(The(output_file))])
                     ELSE stdout

\* The records of a table as the list of dicts a command works on.
as_dict(rows) == ListV([i \in 1..Len(rows) |-> DictV(rows[i])])

\* thefuzz.process.extractBests(fuzzy_query, data, score_cutoff=50), a
\* library outside this repository: the records whose text scores 50 or
\* more against the query, best first, five at most.  Which records those
\* are is left open: every selection of records of data, in every order.
extractBests(recs) ==
    LET n == Len(recs.v)
        most == IF n < 5 THEN n ELSE 5
        picks == { f \in UNION { [1..m -> 1..n] : m \in 0..most } :
                     \A i \in DOMAIN f : \A j \in DOMAIN f : f[i] = f[j] => i = j }
    IN  { [i \in DOMAIN f |-> <<recs.v[f[i]], 100 - i>>] : f \in picks }

RECURSIVE sum_loop(_, _, _)
\* sum_command, lines 432-436: rsl after the loop over the records left.
\* record[field] raises KeyError on a record without the field; rsl += value
\* raises TypeError on a value that is no number.
sum_loop(rsl, left, field) ==
    IF left = <<>> THEN Returned(rsl)
    ELSE IF ~contains(Head(left), field) THEN Raised("KeyError")
    ELSE LET value == getitem(Head(left), field)
         IN  IF value.t = "None" THEN sum_loop(rsl, Tail(left), field)
             ELSE IF value.t = "int" THEN sum_loop(rsl + value.v, Tail(left), field)
             ELSE Raised("TypeError")

\* count, lines 177-178: the client, then print(client.count(where=where)).
Count(table, config_file, url, token, where) ==
    LET client == get_client(config_file, url, table, token)
    IN  /\ proc.pc = "idle"
        /\ lastOp.name = "init"
        /\ lastOp' = [name |-> "count"]
        /\ proc' = Ended("count", table)
        /\ IF ~client.ok
           THEN /\ result' = client
                /\ stdout' = stdout
                /\ remote' = remote
           ELSE /\ result' = Returned(None)
                /\ stdout' = Some([text |-> intstr(Len(client_list(remote, where)))])
                /\ remote' = [remote EXCEPT
                                 !.requests = Append(@, <<"count", where>>)]
        /\ UNCHANGED <<inst, heap, data, pre, disk, stdin>>

\* group_by, lines 205-213: the client, client.group_by(...), then
\* __write_output.  answer is what the table sends back.  limit, offset and
\* sort go to the client as given and are left out.
GroupBy(table, config_file, url, token, output_file, file_format, column_name, where, answer) ==
    LET client == get_client(config_file, url, table, token)
    IN  /\ proc.pc = "idle"
        /\ lastOp.name = "init"
        /\ lastOp' = [name |-> "group_by"]
        /\ proc' = Ended("group_by", table)
        /\ IF ~client.ok
           THEN /\ result' = client
                /\ UNCHANGED <<disk, stdout, remote>>
           ELSE /\ remote' = [remote EXCEPT
                                 !.requests = Append(@, <<"group_by", column_name, where>>)]
                /\ WriteOutput(output_file, file_format, answer, FALSE)
        /\ UNCHANGED <<inst, heap, data, pre, stdin>>

\* aggregate, lines 244-254: the client, client.aggregate(...), then
\* __write_output.  answer is what the table sends back.  having, fields,
\* limit, offset and sort go to the client as given and are left out.
Aggregate(table, config_file, url, token, output_file, file_format, column_name, func, answer) ==
    LET client == get_client(config_file, url, table, token)
    IN  /\ proc.pc = "idle"
        /\ lastOp.name = "init"
        /\ lastOp' = [name |-> "aggregate"]
        /\ proc' = Ended("aggregate", table)
        /\ IF ~client.ok
           THEN /\ result' = client
                /\ UNCHANGED <<disk, stdout, remote>>
           ELSE /\ remote' = [remote EXCEPT
                                 !.requests = Append(@, <<"aggregate", column_name, func>>)]
                /\ WriteOutput(output_file, file_format, answer, FALSE)
        /\ UNCHANGED <<inst, heap, data, pre, stdin>>

\* find_first, lines 279-286: the client, client.find_first(...), then
\* __write_output of the one record found, a dict.  What the client does
\* when no record matches is outside this repository: such runs are left
\* out.  offset, sort and fields go to the client as given.
FindFirst(table, config_file, url, token, output_file, file_format, where) ==
    LET client == get_client(config_file, url, table, token)
        found  == client_list(remote, where)
    IN  /\ proc.pc = "idle"
        /\ lastOp.name = "init"
        /\ lastOp' = [name |-> "find_first"]
        /\ proc' = Ended("find_first", table)
        /\ IF ~client.ok
           THEN /\ result' = client
                /\ UNCHANGED <<disk, stdout, remote>>
           ELSE /\ found # <<>>
                /\ remote' = [remote EXCEPT
                                 !.requests = Append(@, <<"find_first", where>>)]
                /\ WriteOutput(output_file, file_format, DictV(Head(found)), FALSE)
        /\ UNCHANGED <<inst, heap, data, pre, stdin>>

\* init, lines 313-317: Config(...).to_file(output_file).  open(None, "w")
\* raises TypeError when no output file is given.
InitCommand(output_file) ==
    /\ proc.pc = "idle"
    /\ lastOp.name = "init"
    /\ lastOp' = [name |-> "init_command"]
    /\ proc' = Ended("init", <<>>)
    /\ IF IsNone(output_file)
       THEN /\ result' = Raised("TypeError")
            /\ disk' = disk
       ELSE /\ result' = Returned(None)
            /\ disk' = Some(Bytes("json", <<>>,
                         DictV(<< <<S_base_url,
                                    StrV(<<"h","t","t","p","s",":","/","/","/",
                                           "n","o","c","o",".","e","x","a","m","p","l","e",".",
                                           "c","o","m","/","n","c","/","p","r","o","j","e","c","t",
                                           "/","a","p","i","/","v","1","/">>)>>,
                                  <<S_auth_token,
                                    StrV(<<"A","-","S","E","C","R","E","T","-",
                                           "T","O","K","E","N","-","F","N","O","R","D">>)>> >>),
                         NoSheet))
    /\ UNCHANGED <<inst, heap, data, pre, stdout, stdin, remote>>

\* pull, lines 348-363: the client, client.list(..., as_dict=True), the
\* fuzzy query when there is one, then __write_output.  limit, offset, sort,
\* fields and fields1 go to the client as given and are left out.
Pull(table, config_file, url, token, output_file, file_format, where, fuzzy_query) ==
    LET client == get_client(config_file, url, table, token)
        listed == as_dict(client_list(remote, where))
    IN  /\ proc.pc = "idle"
        /\ lastOp.name = "init"
        /\ lastOp' = [name |-> "pull"]
        /\ proc' = Ended("pull", table)
        /\ IF ~client.ok
           THEN /\ result' = client
                /\ UNCHANGED <<disk, stdout, remote>>
           ELSE /\ remote' = [remote EXCEPT
                                 !.requests = Append(@, <<"list", where>>)]
                /\ IF IsNone(fuzzy_query)
                   THEN WriteOutput(output_file, file_format, listed, FALSE)
                   ELSE \E fuzz \in extractBests(listed) :
                            WriteOutput(output_file, file_format,
                                        ListV([i \in 1..Len(fuzz) |-> fuzz[i][1]]),
                                        FALSE)
        /\ UNCHANGED <<inst, heap, data, pre, stdin>>

\* sum_command, lines 424-437: the client, client.list(..., as_dict=True),
\* the sum of the field over the records, then print(rsl).
SumCommand(table, config_file, url, token, where, field) ==
    LET client == get_client(config_file, url, table, token)
        rsl    == sum_loop(0, client_list(remote, where), field)
    IN  /\ proc.pc = "idle"
        /\ lastOp.name = "init"
        /\ lastOp' = [name |-> "sum"]
        /\ proc' = Ended("sum", table)
        /\ IF ~client.ok
           THEN /\ result' = client
                /\ stdout' = stdout
                /\ remote' = remote
           ELSE /\ remote' = [remote EXCEPT
                                 !.requests = Append(@, <<"list", where>>)]
                /\ result' = IF rsl.ok THEN Returned(None) ELSE rsl
                /\ stdout' = IF rsl.ok THEN Some([text |-> intstr(rsl.value)])
                             ELSE stdout
        /\ UNCHANGED <<inst, heap, data, pre, disk, stdin>>

\* template, lines 454-458: the client, client.list()[0], every value of
\* that record set to None, then __write_output with only_header.
Template(table, config_file, url, token, output_file, file_format) ==
    LET client == get_client(config_file, url, table, token)
        listed == client_list(remote, None)
    IN  /\ proc.pc = "idle"
        /\ lastOp.name = "init"
        /\ lastOp' = [name |-> "template"]
        /\ proc' = Ended("template", table)
        /\ IF ~client.ok
           THEN /\ result' = client
                /\ UNCHANGED <<disk, stdout, remote>>
           ELSE /\ remote' = [remote EXCEPT !.requests = Append(@, <<"list">>)]
                /\ IF listed = <<>>
                   THEN /\ result' = Raised("IndexError")
                        /\ UNCHANGED <<disk, stdout>>
                   ELSE WriteOutput(output_file, file_format,
                            ListV(<< DictV([i \in 1..Len(listed[1]) |->
                                               <<listed[1][i][1], NoneV>>]) >>),
                            TRUE)
        /\ UNCHANGED <<inst, heap, data, pre, stdin>>

\* The output files and format options of a run, and what a table sends
\* back to group_by and aggregate.
OutputOptions ==
    { None, Some(<<"o",".","j","s","o","n">>), Some(<<"o",".","c","s","v">>),
      Some(<<"o",".","t","x","t">>) }
    \X { None, Some("CSV"), Some("JSON") }
Answers_of_table ==
    { ListV(<<>>),
      ListV(<< DictV(<< <<S_name, StrV(<<"A">>)>>, <<<<"c","o","u","n","t">>, IntV(2)>> >>) >>),
      ListV(<< DictV(<< <<S_name, StrV(<<"A">>)>> >>),
               DictV(<< <<S_id, IntV(1)>> >>) >>) }

\* One command a run, on a table of up to MaxRows records.  The format
\* option of push is none or the format the input file is written in;
\* isatty tells whether standard output is a terminal, stdin_isatty whether
\* standard input is one.
NextCli ==
    \/ \E table \in Tables, o \in ConnectionOptions,
          isatty \in BOOLEAN, stdin_isatty \in BOOLEAN :
           PurgeBegin(table, o[1], o[2], o[3], isatty, stdin_isatty)
    \/ \E user \in Answers : AnswerOk(user)
    \/ \E user \in Answers : AnswerTable(user)
    \/ InputEnds
    \/ DeleteNext
    \/ PurgeEnd
    \/ \E table \in Tables, o \in ConnectionOptions, f \in InputFiles :
           \E fo \in { None, Some(f.fmt) } :
               Push(table, o[1], o[2], o[3], f.name, f.raw, fo)
    \/ \E table \in Tables, o \in ConnectionOptions, f \in UpdateFiles :
           Update(table, o[1], o[2], o[3], f.raw)
    \/ \E table \in Tables, o \in ConnectionOptions,
          where \in { None, Some(1), Some(9) },
          isatty \in BOOLEAN, stdin_isatty \in BOOLEAN :
           UpdateFieldBegin(table, o[1], o[2], o[3], S_name, <<"Z">>, where,
                            isatty, stdin_isatty)
    \/ \E user \in Answers : AnswerChange(user)
    \/ UpdateNext
    \/ UpdateFieldEnd
    \/ \E table \in Tables, o \in ConnectionOptions,
          where \in { None, Some(1), Some(9) } :
           Count(table, o[1], o[2], o[3], where)
    \/ \E table \in Tables, o \in ConnectionOptions, out \in OutputOptions,
          answer \in Answers_of_table :
           GroupBy(table, o[1], o[2], o[3], out[1], out[2], Some(S_name), None, answer)
    \/ \E table \in Tables, o \in ConnectionOptions, out \in OutputOptions,
          answer \in Answers_of_table :
           Aggregate(table, o[1], o[2], o[3], out[1], out[2], Some(S_id),
                     Some(<<"s","u","m">>), answer)
    \/ \E table \in Tables, o \in ConnectionOptions, out \in OutputOptions,
          where \in { None, Some(1), Some(9) } :
           FindFirst(table, o[1], o[2], o[3], out[1], out[2], where)
    \/ \E out \in OutputOptions : InitCommand(out[1])
    \/ \E table \in Tables, o \in ConnectionOptions, out \in OutputOptions,
          where \in { None, Some(1), Some(9) }, q \in { None, Some(<<"A">>) } :
           Pull(table, o[1], o[2], o[3], out[1], out[2], where, q)
    \/ \E table \in Tables, o \in ConnectionOptions,
          where \in { None, Some(1), Some(9) },
          field \in { S_id, S_name, <<"x">> } :
           SumCommand(table, o[1], o[2], o[3], where, field)
    \/ \E table \in Tables, o \in ConnectionOptions, out \in OutputOptions :
           Template(table, o[1], o[2], o[3], out[1], out[2])

SpecCli == InitCli /\ [][NextCli]_vars

\* The resolver alone, over every hint and pair of paths.
NextResolve ==
    \E fo \in Hints, ip \in Paths, op \in Paths, ln \in BOOLEAN, kw \in KwargsSet :
        CallFile(fo, ip, op, ln, kw)

SpecResolve == Init /\ [][NextResolve]_vars

---------------------------------------------------------------------------
(* Vocabulary of the claims *)

\* Two characters that are the same letter, whatever their case.
SameLetter(a, b) ==
    \/ a = b
    \/ \E i \in 1..26 : {a, b} = {UpperLetters[i], LowerLetters[i]}

\* Two texts that are equal when letter case is ignored.
SameTextIgnoringCase(a, b) ==
    /\ Len(a) = Len(b)
    /\ \A i \in 1..Len(a) : SameLetter(a[i], b[i])

\* The class a text names when it is a known variant's name, else "".
VariantNamed(text) ==
    IF SameTextIgnoringCase(text, <<"j","s","o","n">>) THEN "Json"
    ELSE IF SameTextIgnoringCase(text, <<"y","a","m","l">>) THEN "Yaml"
    ELSE IF SameTextIgnoringCase(text, <<"c","s","v">>) THEN "Csv"
    ELSE IF SameTextIgnoringCase(text, <<"x","l","s","x">>) THEN "Xlsx"
    ELSE ""

\* The class an extension selects, else "".
VariantOfExtension(ext) ==
    IF SameTextIgnoringCase(ext, <<".","j","s","o","n">>) THEN "Json"
    ELSE IF SameTextIgnoringCase(ext, <<".","y","a","m","l">>)
            \/ SameTextIgnoringCase(ext, <<".","y","m","l">>) THEN "Yaml"
    ELSE IF SameTextIgnoringCase(ext, <<".","c","s","v">>) THEN "Csv"
    ELSE IF SameTextIgnoringCase(ext, <<".","x","l","s","x">>) THEN "Xlsx"
    ELSE ""

\* The last operation was a call of method name on an instance of class cls.
Called(name, cls) ==
    /\ lastOp.name = name
    /\ ~IsNone(inst)
    /\ The(inst).cls = cls

\* The caller's records before and after the last operation.
RecordsBefore == records(pre.heap, pre.data)
RecordsAfter  == records(heap, data)

\* The first record with the most keys among the records before the call.
WidestBefore ==
    RecordsBefore[CHOOSE i \in 1..Len(RecordsBefore) :
        /\ \A j \in 1..Len(RecordsBefore) :
               Len(RecordsBefore[j]) <= Len(RecordsBefore[i])
        /\ \A j \in 1..(i-1) : Len(RecordsBefore[j]) < Len(RecordsBefore[i])]

\* No mapping value of a record holds a mapping itself.
DepthAtMostOne(recs) ==
    \A i \in 1..Len(recs) : \A j \in 1..Len(recs[i]) :
        recs[i][j][2].t = "dict" =>
            \A k \in 1..Len(recs[i][j][2].v) : recs[i][j][2].v[k][2].t # "dict"

---------------------------------------------------------------------------
(* C1 *)

\* C1: when File.save() with an output path set fails in dump(), the file
\* at the output path is as it was before the call.
C1_FailedSaveLeavesFile ==
    ( /\ lastOp.name = "save"
      /\ ~IsNone(The(inst).output_path)
      /\ ~result.ok )
    => disk = pre.disk

---------------------------------------------------------------------------
(* C2 *)

\* C2: after Xlsx.dump(data) returns, the caller's list has the records it
\* had before the call, each with the keys and values it had.
C2_XlsxDumpLeavesData ==
    (Called("dump", "Xlsx") /\ result.ok)
    => /\ Len(data) = Len(pre.data)
       /\ RecordsAfter = RecordsBefore

---------------------------------------------------------------------------
(* C3 *)

\* The CSV text the claim describes for the records before the call.
C3_ExpectedLines ==
    <<csv_line(keys(WidestBefore))>>
    \o [i \in 1..Len(RecordsBefore) |-> csv_row(keys(WidestBefore), RecordsBefore[i])]

\* C3: Csv.dump writes the keys of the widest record as header and one
\* line per record, an empty field for every key a record lacks; saving
\* the two records of the scenario as CSV with level_nested set gives
\* id,name,extra_k / 1,A, / 2,B,v.
C3_CsvHeaderFromWidest ==
    /\ ( /\ Called("dump", "Csv")
         /\ ~The(inst).only_header
         /\ Len(pre.data) > 0 )
       => /\ result.ok
          /\ result.value.lines = C3_ExpectedLines
    /\ ( /\ Called("save", "Csv")
         /\ ~The(inst).only_header
         /\ The(inst).level_nested
         /\ ~IsNone(The(inst).output_path)
         /\ RecordsBefore = <<R_flat, R_nested>> )
       => /\ result.ok
          /\ disk = Some(Bytes("csv",
                 << <<"i","d",",","n","a","m","e",",","e","x","t","r","a","_","k">>,
                    <<"1",",","A",",">>,
                    <<"2",",","B",",","v">> >>,
                 <<>>, NoSheet))

---------------------------------------------------------------------------
(* C4 *)

\* C4 as stated: flattening what a flattening left gives the same records,
\* whatever the nesting depth.
C4_FlattenIdempotent ==
    (lastOp.name = "level" /\ The(inst).level_nested)
    => records(level(The(inst), heap, data), data) = RecordsAfter

\* C4 as amended: flattening what a flattening left gives the same records
\* when no mapping value of the records flattened first holds a mapping.
C4_FlattenIdempotentDepthOne ==
    ( /\ lastOp.name = "level"
      /\ The(inst).level_nested
      /\ DepthAtMostOne(RecordsBefore) )
    => records(level(The(inst), heap, data), data) = RecordsAfter

\* A flattening of records of depth one that rewrote a record.
C4_Witness ==
    /\ lastOp.name = "level"
    /\ The(inst).level_nested
    /\ DepthAtMostOne(RecordsBefore)
    /\ \E i \in 1..Len(RecordsBefore) : RecordsBefore[i] = R_nested
    /\ RecordsAfter # RecordsBefore

---------------------------------------------------------------------------
(* C5 *)

\* C5: a hint that names a known variant, in any letter case, makes file()
\* return that variant's codec whatever the two paths are.
C5_KnownHintWins ==
    ( /\ lastOp.name = "file"
      /\ ~IsNone(lastOp.format_option)
      /\ VariantNamed(The(lastOp.format_option)) # "" )
    => /\ result.ok
       /\ result.value.cls = VariantNamed(The(lastOp.format_option))

\* file("Json", "o.csv", "g.txt") returned a Json codec.
C5_Witness ==
    /\ lastOp.name = "file"
    /\ lastOp.format_option = Some(<<"J","s","o","n">>)
    /\ lastOp.input_path = Some(P_out)
    /\ lastOp.output_path = Some(<<"g",".","t","x","t">>)
    /\ result.ok
    /\ result.value.cls = "Json"

---------------------------------------------------------------------------
(* C6 *)

\* C6: without hint and with both paths, file() raises
\* DifferentInOutFormats exactly when the extensions differ beyond letter
\* case, and nothing has been read, created or written by then.
C6_MismatchBeforeIO ==
    ( /\ lastOp.name = "file"
      /\ IsNone(lastOp.format_option)
      /\ ~IsNone(lastOp.input_path)
      /\ ~IsNone(lastOp.output_path) )
    => /\ (~result.ok /\ result.exc = "DifferentInOutFormats")
          <=> ~SameTextIgnoringCase(suffix(The(lastOp.input_path)),
                                    suffix(The(lastOp.output_path)))
       /\ disk = pre.disk
       /\ stdout = None

\* file(None, "a.json", "o.csv") raised DifferentInOutFormats.
C6_Witness ==
    /\ lastOp.name = "file"
    /\ IsNone(lastOp.format_option)
    /\ lastOp.input_path = Some(<<"a",".","j","s","o","n">>)
    /\ lastOp.output_path = Some(P_out)
    /\ ~result.ok
    /\ result.exc = "DifferentInOutFormats"

---------------------------------------------------------------------------
(* C7 *)

\* The outcome the stated precedence gives: a class name or an error name.
C7_Expected(format_option, input_path, output_path) ==
    IF ~IsNone(format_option) THEN "FormatUnknown"
    ELSE IF IsNone(input_path) /\ IsNone(output_path) THEN "Yaml"
    ELSE LET path == IF ~IsNone(input_path) THEN The(input_path) ELSE The(output_path)
             cls  == VariantOfExtension(suffix(path))
         IN  IF cls # "" THEN cls ELSE "FormatNotAscertainable"

\* The outcome of the last call: the class returned or the error raised.
C7_Outcome == IF result.ok THEN result.value.cls ELSE result.exc

\* C7: outside a known hint and outside mismatching extensions, file()
\* gives the outcome of the precedence: FormatUnknown for an unknown hint,
\* YAML without hint and paths, else the variant of the extension of the
\* input path (of the output path without input path), else
\* FormatNotAscertainable.
C7_Precedence ==
    ( /\ lastOp.name = "file"
      /\ ~( /\ ~IsNone(lastOp.format_option)
            /\ VariantNamed(The(lastOp.format_option)) # "" )
      /\ ~( /\ IsNone(lastOp.format_option)
            /\ ~IsNone(lastOp.input_path)
            /\ ~IsNone(lastOp.output_path)
            /\ ~SameTextIgnoringCase(suffix(The(lastOp.input_path)),
                                     suffix(The(lastOp.output_path))) ) )
    => C7_Outcome = C7_Expected(lastOp.format_option, lastOp.input_path,
                                lastOp.output_path)

\* file(None, None, "e.Yaml") returned a Yaml codec.
C7_Witness ==
    /\ lastOp.name = "file"
    /\ IsNone(lastOp.format_option)
    /\ IsNone(lastOp.input_path)
    /\ lastOp.output_path = Some(<<"e",".","Y","a","m","l">>)
    /\ result.ok
    /\ result.value.cls = "Yaml"

---------------------------------------------------------------------------
(* C8 *)

\* The text of the worksheet cell at a row and column; empty when no cell.
C8_Cell(rows, r, c) ==
    IF r <= Len(rows) /\ c <= Len(rows[r]) THEN rows[r][c] ELSE <<>>

\* The text the claim puts under header name for a record.
C8_ExpectedCell(record, name) ==
    IF contains(record, name) /\ getitem(record, name).t # "None"
    THEN str(getitem(record, name))
    ELSE <<>>

\* C8: in the worksheet of Xlsx.dump the cell at row i+1, column j holds
\* the text of record i's value for the key of header column j, and is
\* empty when that value is null or the key is missing.
C8_XlsxCellsByHeader ==
    (Called("dump", "Xlsx") /\ result.ok)
    => LET rows == result.value.sheet.rows
       IN  \A i \in 1..Len(RecordsBefore) : \A j \in 1..Len(rows[1]) :
               C8_Cell(rows, i + 1, j) = C8_ExpectedCell(RecordsBefore[i], rows[1][j])

---------------------------------------------------------------------------
(* C9 *)

\* The greatest of a non-empty set of numbers.
C9_Max(S) == CHOOSE m \in S : \A n \in S : n <= m

\* ceil(L * 0.93) kept within 5..80.
C9_Width(L) ==
    LET w == (L * 93 + 99) \div 100
    IN  IF w < 5 THEN 5 ELSE IF w > 80 THEN 80 ELSE w

\* The greatest text length in the column of header name: the name and
\* the text of every record's value for it.
C9_LongestText(name) ==
    C9_Max({Len(name)} \cup
           { Len(C8_ExpectedCell(RecordsBefore[i], name)) :
               i \in 1..Len(RecordsBefore) })

\* C9: every column's width is ceil(L * 0.93) kept within 5..80, L the
\* greatest text length of the column, and a column of width 80 is wrapped.
C9_XlsxWidths ==
    (Called("dump", "Xlsx") /\ result.ok)
    => LET sheet == result.value.sheet
       IN  \A c \in 1..Len(sheet.rows[1]) :
               /\ sheet.widths[c] = C9_Width(C9_LongestText(sheet.rows[1][c]))
               /\ C9_LongestText(sheet.rows[1][c]) = 100
                  => sheet.widths[c] = 80 /\ sheet.wrapped[c]

---------------------------------------------------------------------------
(* C10 *)

\* C10: a tabular codec constructed with only_header set dumps the header
\* alone: one line of CSV, one row of worksheet.
C10_OnlyHeader ==
    ( /\ lastOp.name = "dump"
      /\ The(inst).cls \in {"Csv", "Xlsx"}
      /\ The(inst).kwargs.only_header = Some(TRUE)
      /\ Len(pre.data) > 0
      /\ result.ok )
    => /\ The(inst).cls = "Csv" => Len(result.value.lines) = 1
       /\ The(inst).cls = "Xlsx" => Len(result.value.sheet.rows) = 1

---------------------------------------------------------------------------
(* C11, C12 *)

\* The letter of worksheet column c, for c up to 26.
ColumnLetter(c) == <<UpperLetters[c]>>

\* The text of the cell range from column A, row top to column cols, row
\* bottom.
RangeText(top, cols, bottom) ==
    <<"A">> \o intstr(top) \o <<":">> \o ColumnLetter(cols) \o intstr(bottom)

\* C11: for N >= 1 records whose widest record has C keys, Xlsx.dump
\* registers its table on A1:<letter of column C><N+1>: the header row and
\* the N data rows, no row and no column more.
C11_TableRange ==
    ( /\ Called("dump", "Xlsx")
      /\ Len(RecordsBefore) >= 1
      /\ Len(WidestBefore) >= 1 )
    => /\ result.ok
       /\ result.value.sheet.table =
              RangeText(1, Len(WidestBefore), Len(RecordsBefore) + 1)

\* C12: for N >= 1 records the alternating-shading rule of Xlsx.dump is on
\* the range from A2 to the bottom-right data cell: rows 2 to N+1, the
\* columns of the widest record, neither the header row nor a row below the
\* last data row.
C12_ShadingRange ==
    ( /\ Called("dump", "Xlsx")
      /\ Len(RecordsBefore) >= 1
      /\ Len(WidestBefore) >= 1 )
    => /\ result.ok
       /\ Len(result.value.sheet.rows) = Len(RecordsBefore) + 1
       /\ result.value.sheet.conditional =
              RangeText(2, Len(WidestBefore), Len(RecordsBefore) + 1)

---------------------------------------------------------------------------
(* C15 *)

\* What the last save wrote: the file at the output path, else the text
\* printed.
C15_Written ==
    IF IsNone(The(inst).output_path) THEN stdout ELSE disk

RECURSIVE C15_SameValue(_, _)
\* Two values equal as Python compares them: two mappings are equal when
\* they hold the same keys with equal values, in whatever order.
C15_SameValue(x, y) ==
    IF x.t = "dict" /\ y.t = "dict"
    THEN /\ Len(x.v) = Len(y.v)
         /\ \A i \in 1..Len(x.v) :
                /\ contains(y.v, x.v[i][1])
                /\ C15_SameValue(x.v[i][2], getitem(y.v, x.v[i][1]))
    ELSE x = y

\* Two record sequences of the same length, equal record by record.
C15_SameDocument(r, q) ==
    /\ Len(r) = Len(q)
    /\ \A i \in 1..Len(r) : C15_SameValue(DictV(r[i]), DictV(q[i]))

\* C15: File.save() through the Json or Yaml codec writes the records as
\* they were handed over, nested mappings included, also when level_nested
\* is set.
C15_JsonYamlSaveKeepsNesting ==
    ( /\ lastOp.name = "save"
      /\ The(inst).cls \in {"Json", "Yaml"}
      /\ result.ok )
    => /\ ~IsNone(C15_Written)
       /\ C15_SameDocument(The(C15_Written).doc, RecordsBefore)

---------------------------------------------------------------------------
(* C13 *)

\* Every value of every record is a number, a text or null.
C13_ScalarOnly(recs) ==
    \A i \in 1..Len(recs) : \A j \in 1..Len(recs[i]) :
        recs[i][j][2].t \in {"None", "int", "str"}

\* Two mappings with the same keys and the same value under each key.
C13_SameMapping(a, b) ==
    {a[j] : j \in 1..Len(a)} = {b[j] : j \in 1..Len(b)}

\* Two record sequences of the same length, equal record by record.
C13_SameRecords(r, q) ==
    /\ Len(r) = Len(q)
    /\ \A i \in 1..Len(r) : C13_SameMapping(r[i], q[i])

\* The records with every empty text replaced by null.
C13_EmptyAsNull(recs) ==
    [i \in 1..Len(recs) |->
        [j \in 1..Len(recs[i]) |->
            IF recs[i][j][2] = StrV(<<>>)
            THEN <<recs[i][j][1], NoneV>>
            ELSE recs[i][j]]]

\* C13: for records R of scalar and null values, parse(dump(R)) gives R
\* back through the Json codec, and through the Csv codec too (numbers
\* included) but for an empty text read back as null.
C13_RoundTrip ==
    ( /\ lastOp.name = "parse"
      /\ The(inst).cls \in {"Json", "Csv"}
      /\ ~The(inst).only_header
      /\ C13_ScalarOnly(RecordsBefore) )
    => /\ result.ok
       /\ The(inst).cls = "Json" => C13_SameRecords(result.value, RecordsBefore)
       /\ The(inst).cls = "Csv"
          => C13_SameRecords(result.value, C13_EmptyAsNull(RecordsBefore))

---------------------------------------------------------------------------
(* C14 *)

\* The items the claim gives the flattening of one record: every item whose
\* value is no mapping, and for every item of a mapping value one item
\* named <key>_<nested key> with the nested value.
C14_ExpectedItems(record) ==
    { record[j] : j \in { k \in 1..Len(record) : record[k][2].t # "dict" } }
    \cup
    UNION { { <<record[j][1] \o <<"_">> \o record[j][2].v[k][1], record[j][2].v[k][2]>> :
                k \in 1..Len(record[j][2].v) } :
            j \in { k \in 1..Len(record) : record[k][2].t = "dict" } }

\* C14: flattening one record removes every key whose value is a mapping,
\* adds one key <original>_<nested> with the nested value for each key of
\* that mapping and leaves every other key and its value as they were; a
\* record without mapping values is unchanged; one level is expanded.
C14_FlattenOneRecord ==
    (lastOp.name = "level" /\ The(inst).level_nested)
    => \A i \in 1..Len(RecordsBefore) :
          /\ {RecordsAfter[i][j] : j \in 1..Len(RecordsAfter[i])}
                 = C14_ExpectedItems(RecordsBefore[i])
          /\ Len(RecordsAfter[i]) = Cardinality(C14_ExpectedItems(RecordsBefore[i]))

---------------------------------------------------------------------------
(* C16, C17 *)

\* C16: when an interrupt ends the drain of standard input, the text
\* collected so far is dropped (none of it is passed on as the input),
\* standard output is flushed and the drain returns without raising.
C16_InterruptDiscards ==
    (lastOp.name = "load" /\ lastOp.interrupted)
    => /\ lastOp.drained = Some(<<>>)
       /\ lastOp.flushed

\* The records a well-formed text on standard input encodes for a class.
C17_Encoded(cls, text) ==
    IF cls = "Json" /\ text = concat(T_json)
    THEN Some(<< << <<S_id, IntV(1)>> >> >>)
    ELSE IF cls = "Csv" /\ text = concat(T_csv)
    THEN Some(<< << <<S_id, StrV(<<"1">>)>>, <<S_name, StrV(<<"A">>)>> >> >>)
    ELSE None

\* C17: load() without input path, when the codec supports the standard
\* streams, drains standard input to its end and returns the parse of
\* exactly that text, which succeeds on well-formed input; when the codec
\* does not support them it raises StdInNotSupported and reads nothing.
C17_LoadFromStdin ==
    ( /\ lastOp.name = "load"
      /\ IsNone(The(inst).input_path)
      /\ ~lastOp.interrupted )
    => IF supports_std(The(inst).cls)
       THEN /\ stdin = <<>>
            /\ ~IsNone(lastOp.drained)
            /\ ~IsNone(C17_Encoded(The(inst).cls, The(lastOp.drained)))
               => result = Returned(The(C17_Encoded(The(inst).cls, The(lastOp.drained))))
       ELSE /\ result = Raised("StdInNotSupported")
            /\ IsNone(lastOp.drained)

---------------------------------------------------------------------------
(* C18 *)

\* What an instance constructed like the one in use, but new, gives for
\* the list the last dump was called on.
C18_FromNewInstance ==
    Xlsx_dump([The(pre.inst) EXCEPT !.longest_entry_temp = None],
              pre.heap, pre.data).result

\* C18: when an Xlsx instance that dumped a list before dumps another one,
\* header row, column widths and table range are those a newly constructed
\* instance gives for that list.
C18_NoStateBetweenDumps ==
    ( /\ Called("dump", "Xlsx")
      /\ ~IsNone(pre.inst)
      /\ ~IsNone(The(pre.inst).longest_entry_temp) )
    => /\ result.ok = C18_FromNewInstance.ok
       /\ result.ok
          => /\ result.value.sheet.rows[1] = C18_FromNewInstance.value.sheet.rows[1]
             /\ result.value.sheet.widths = C18_FromNewInstance.value.sheet.widths
             /\ result.value.sheet.table = C18_FromNewInstance.value.sheet.table

---------------------------------------------------------------------------
(* C19 *)

\* The command run is purge.
C19_Purge == proc.pc # "idle" /\ proc.cmd = "purge"

\* The user answered "Y" to the first prompt and then typed the table name.
C19_BothConfirmed ==
    /\ C19_Purge
    /\ proc.said = << <<"Y">>, proc.table >>

\* The delete requests the table received, in order.
C19_Deletes == SelectSeq(remote.requests, LAMBDA r : r[1] = "delete")

\* C19: purge lists and deletes nothing unless the user answered exactly
\* "Y" and then typed exactly the table name; after any other answer it
\* exits with every record still there; after both confirmations it ends
\* having sent one delete for every record listed.
C19_PurgeNeedsBothAnswers ==
    /\ (C19_Purge /\ remote.requests # <<>>) => C19_BothConfirmed
    /\ (lastOp.name = "purge" /\ ~C19_BothConfirmed)
       => /\ remote.requests = <<>>
          /\ \E n \in 0..MaxRows : remote.records = Rows(n)
          /\ ~result.ok
    /\ (lastOp.name = "purge" /\ C19_BothConfirmed)
       => /\ result.ok
          /\ remote.requests[1] = <<"list">>
          /\ C19_Deletes = [i \in 1..Len(proc.listed) |->
                               <<"delete", getitem(proc.listed[i], S_id)>>]
          /\ Len(remote.requests) = Len(proc.listed) + 1

\* A purge of table t that ended after both confirmations and two deletes.
C19_Witness ==
    /\ lastOp.name = "purge"
    /\ proc.table = <<"t">>
    /\ proc.said = << <<"Y">>, <<"t">> >>
    /\ remote.requests = << <<"list">>, <<"delete", IntV(1)>>, <<"delete", IntV(2)>> >>
    /\ remote.records = <<>>

====
